---- MODULE Spec2Model ----
(***************************************************************************)
(* State-machine model of the AI chat subsystem of memos:                  *)
(*   - the chat handler handleAIChat with its agent loop,                  *)
(*   - the context compactor maybeCompact,                                 *)
(*   - the note tools the agent loop dispatches to,                        *)
(*   - the AI chat session/message tables of the SQL drivers.              *)
(*                                                                         *)
(* Strings are modelled as sequences of atoms (words, " " for a run of     *)
(* whitespace, BlankLine for "\n\n"), so that concatenation is \o, the     *)
(* empty string is << >> and len() is the sum of the atoms' lengths.       *)
(***************************************************************************)
EXTENDS Integers, Sequences, FiniteSets, TLC

(***************************************************************************)
(* Program constants.                                                      *)
(***************************************************************************)
compactThreshold == 400000
keepRecentMessages == 10
maxAgentRounds == 6

(***************************************************************************)
(* Bounds of the model.                                                    *)
(***************************************************************************)
\* Messages of the stored history beyond keepRecentMessages (Init).
MaxOld == 2
\* Chat requests served one after the other on the session.
MaxRequests == 2
\* Model turns of a run that may carry more than the plain single tool call.
MaxRichTurns == 1
\* Storage faults (a failing SQL statement) injected in a run.
MaxFaults == 1
\* Tool invocations of a run of the tools on their own.
MaxInvocations == 2

(***************************************************************************)
(* Strings.                                                                *)
(***************************************************************************)
BlankLine == "\n\n"
BigLen == compactThreshold \div keepRecentMessages

\* len() of one atom: "BIG" and "BIG1" stand for long texts.
AtomLen(a) ==
  IF a = "BIG" THEN BigLen
  ELSE IF a = "BIG1" THEN BigLen + 1
  ELSE IF a = BlankLine THEN 2
  ELSE 1

RECURSIVE StrLen(_)
StrLen(s) == IF s = << >> THEN 0 ELSE AtomLen(Head(s)) + StrLen(Tail(s))

\* s[:min(n, len(s))]; "CUT" stands for the part of the atom the cut falls in.
RECURSIVE Take(_, _)
Take(s, n) ==
  IF s = << >> \/ n = 0 THEN << >>
  ELSE IF AtomLen(Head(s)) <= n THEN <<Head(s)>> \o Take(Tail(s), n - AtomLen(Head(s)))
  ELSE <<"CUT">>

IsSpace(a) == a = " " \/ a = BlankLine

\* strings.TrimSpace(s) == ""
IsBlank(s) == \A i \in 1..Len(s) : IsSpace(s[i])

\* strings.Fields(s): the whitespace-delimited words of s, in order.
Fields(s) == SelectSeq(s, LAMBDA a : ~IsSpace(a))

RECURSIVE TrimLeft(_)
TrimLeft(s) == IF s # << >> /\ IsSpace(Head(s)) THEN TrimLeft(Tail(s)) ELSE s

RECURSIVE TrimRight(_)
TrimRight(s) ==
  IF s # << >> /\ IsSpace(s[Len(s)]) THEN TrimRight(SubSeq(s, 1, Len(s) - 1)) ELSE s

\* strings.TrimSpace(s)
TrimSpace(s) == TrimRight(TrimLeft(s))

Min(a, b) == IF a < b THEN a ELSE b

(***************************************************************************)
(* Identities.                                                             *)
(***************************************************************************)
Users == {"u1", "u2"}
Owner == "u1"
SessionUID == "s1"
Requests == {"r1", "r2"}
MemoUIDs == {"m1", "m2"}
Drivers == {"mysql", "postgres"}

Nil == [nil |-> TRUE]
IsNil(x) == "nil" \in DOMAIN x

\* An optional *string of an update: unset, or set to v.
Unset == [set |-> FALSE]
SetTo(v) == [set |-> TRUE, v |-> v]

(***************************************************************************)
(* State.                                                                  *)
(***************************************************************************)
VARIABLES
  apiKey,      \* s.Profile.OpenRouterAPIKey != ""
  driver,      \* the SQL driver behind s.Store
  session,     \* the ai_chat_session row of SessionUID
  msgTable,    \* the ai_chat_message rows (of that session)
  nextMsgID,   \* the table's next AUTO_INCREMENT / SERIAL id
  memos,       \* the note store: uid -> note
  vs,          \* the vector store handle and its per-user collections
  titleTasks,  \* detached autoTitleSession goroutines not yet run
  req,         \* per request: the handler's position and locals
  lastCall,    \* history: the latest tool invocation and what it returned
  compactions, \* history: the compactions maybeCompact completed, oldest first
  http,        \* history: the latest request to a session endpoint and its response
  env          \* what the environment may still do in this run

vars == <<apiKey, driver, session, msgTable, nextMsgID, memos, vs, titleTasks, req,
          lastCall, compactions, http, env>>

(***************************************************************************)
(* The ai_chat_session / ai_chat_message tables (store/db/mysql and        *)
(* store/db/postgres).  Every operator takes the table state it reads and  *)
(* `ok`: FALSE when the SQL statement fails.                               *)
(***************************************************************************)
\* The *store.AIChatSession scanned from the session row.
SessionOf(row) ==
  [uid |-> SessionUID, creatorID |-> row.creator, title |-> row.title, summary |-> row.summary]

\* GetAIChatSession: the first row matching the uid, or nil.
GetAIChatSession(row) == IF row.exists THEN SessionOf(row) ELSE Nil

\* The row after UPDATE ai_chat_session SET ... WHERE uid = ?
UpdatedRow(row, update) ==
  IF ~row.exists THEN row
  ELSE [row EXCEPT !.title = IF update.title.set THEN update.title.v ELSE @,
                   !.summary = IF update.summary.set THEN update.summary.v ELSE @]

\* mysql: UPDATE, then fetch the row back; a missing row gives (nil, nil).
MysqlUpdateAIChatSession(row, update, ok) ==
  IF ~(update.title.set \/ update.summary.set)
  THEN [row |-> row, ret |-> GetAIChatSession(row), err |-> FALSE]
  ELSE IF ~ok THEN [row |-> row, ret |-> Nil, err |-> TRUE]
  ELSE [row |-> UpdatedRow(row, update),
        ret |-> GetAIChatSession(UpdatedRow(row, update)), err |-> FALSE]

\* postgres: UPDATE ... RETURNING scanned; a missing row gives sql.ErrNoRows.
PostgresUpdateAIChatSession(row, update, ok) ==
  IF ~(update.title.set \/ update.summary.set)
  THEN [row |-> row, ret |-> GetAIChatSession(row), err |-> FALSE]
  ELSE IF ~ok \/ ~row.exists THEN [row |-> row, ret |-> Nil, err |-> TRUE]
  ELSE [row |-> UpdatedRow(row, update), ret |-> SessionOf(UpdatedRow(row, update)),
        err |-> FALSE]

\* s.Store.UpdateAIChatSession: the configured driver's.
UpdateAIChatSession(drv, row, update, ok) ==
  IF drv = "mysql" THEN MysqlUpdateAIChatSession(row, update, ok)
  ELSE PostgresUpdateAIChatSession(row, update, ok)

\* CreateAIChatMessage: INSERT with the next id; the foreign key on session_id
\* refuses a row whose session is gone.
CreateAIChatMessage(row, table, nextID, create, ok) ==
  IF ok /\ row.exists
  THEN [table |-> table \cup {[id |-> nextID, role |-> create.role, content |-> create.content,
                               toolName |-> create.toolName, tokenCount |-> create.tokenCount]},
        nextID |-> nextID + 1, err |-> FALSE]
  ELSE [table |-> table, nextID |-> nextID, err |-> TRUE]

RECURSIVE SortByID(_)
SortByID(rows) ==
  IF rows = {} THEN << >>
  ELSE LET first == CHOOSE m \in rows : \A o \in rows : m.id <= o.id
       IN <<first>> \o SortByID(rows \ {first})

\* ListAIChatMessages: SELECT ... WHERE session_id = ? ORDER BY id ASC
ListAIChatMessages(table) == SortByID(table)

\* DeleteAIChatMessages: DELETE FROM ai_chat_message WHERE session_id = ?
DeleteAIChatMessages(table, ok) ==
  IF ok THEN [table |-> {}, err |-> FALSE] ELSE [table |-> table, err |-> TRUE]

\* int32(len(content) / 4)
TokenCount(content) == StrLen(content) \div 4

(***************************************************************************)
(* The note tools.  A raw argument string is either undecodable (Garbage)  *)
(* or a JSON object with some of the fields set; json.Unmarshal leaves a   *)
(* missing field at its zero value.  `fault` names the store call that     *)
(* fails, if any: "get" or "write".                                        *)
(***************************************************************************)
Garbage == [json |-> FALSE]
Json(f) == [json |-> TRUE, f |-> f]
Field(args, k, zero) == IF k \in DOMAIN args.f THEN args.f[k] ELSE zero

ToolOut(result, err, ms) == [result |-> result, err |-> err, memos |-> ms]

\* t.store.GetMemo(FindMemo{UID}): the note, or nil (an error counts alike
\* in every caller: `err != nil || m == nil`).
GetMemo(ms, uid, fault) ==
  IF fault # "get" /\ uid \in DOMAIN ms /\ ms[uid].exists THEN ms[uid] ELSE Nil

\* An ownership check that lets everyone through.
NotOwnerNever(m, userID) == FALSE

\* The ownership check of the mutating tools: m.CreatorID != t.userID
NotOwner(m, userID) == m.creatorID # userID

updateMemoTool_Call(userID, args, ms, fault) ==
  IF ~args.json THEN ToolOut(<<"Error", ": failed to parse input JSON.">>, Nil, ms)
  ELSE LET uid == Field(args, "uid", "")
           m == GetMemo(ms, uid, fault)
       IN IF IsNil(m) THEN ToolOut(<<"Error", ": note not found.">>, Nil, ms)
          ELSE IF NotOwner(m, userID)
          THEN ToolOut(<<"Error", ": unauthorized to update this note.">>, Nil, ms)
          ELSE IF fault = "write" THEN ToolOut(<<"Error", ": ", "store error">>, Nil, ms)
          ELSE ToolOut(<<"Note successfully updated.">>, Nil,
                       [ms EXCEPT ![uid].content = Field(args, "content", << >>)])

appendToMemoTool_Call(userID, args, ms, fault) ==
  IF ~args.json THEN ToolOut(<<"Error", ": failed to parse input JSON.">>, Nil, ms)
  ELSE LET uid == Field(args, "uid", "")
           m == GetMemo(ms, uid, fault)
       IN IF IsNil(m) THEN ToolOut(<<"Error", ": note not found.">>, Nil, ms)
          ELSE IF NotOwner(m, userID)
          THEN ToolOut(<<"Error", ": unauthorized to modify this note.">>, Nil, ms)
          ELSE IF fault = "write"
          THEN ToolOut(<<"Error", " appending to note: ", "store error">>, Nil, ms)
          ELSE ToolOut(<<"Content successfully appended to note.">>, Nil,
                       [ms EXCEPT ![uid].content =
                            m.content \o <<BlankLine>> \o Field(args, "content", << >>)])

\* strings.Join(tags, " ")
RECURSIVE JoinSpace(_)
JoinSpace(tags) ==
  IF tags = << >> THEN << >>
  ELSE IF Len(tags) = 1 THEN <<Head(tags)>>
  ELSE <<Head(tags), " ">> \o JoinSpace(Tail(tags))

updateMemoTagsTool_Call(userID, args, ms, fault) ==
  IF ~args.json THEN ToolOut(<<"Error", ": failed to parse input JSON.">>, Nil, ms)
  ELSE LET uid == Field(args, "uid", "")
           m == GetMemo(ms, uid, fault)
       IN IF IsNil(m) THEN ToolOut(<<"Error", ": note not found.">>, Nil, ms)
          ELSE IF NotOwner(m, userID)
          THEN ToolOut(<<"Error", ": unauthorized to modify this note.">>, Nil, ms)
          ELSE IF fault = "write"
          THEN ToolOut(<<"Error", " appending tags: ", "store error">>, Nil, ms)
          ELSE ToolOut(<<"Tags successfully added to the note body.">>, Nil,
                       [ms EXCEPT ![uid].content =
                            m.content \o <<BlankLine>> \o JoinSpace(Field(args, "new_tags", << >>))])

deleteMemoTool_Call(userID, args, ms, fault) ==
  IF ~args.json THEN ToolOut(<<"Error", ": failed to parse input JSON.">>, Nil, ms)
  ELSE LET uid == Field(args, "uid", "")
           m == GetMemo(ms, uid, fault)
       IN IF IsNil(m) THEN ToolOut(<<"Error", ": note not found.">>, Nil, ms)
          ELSE IF NotOwner(m, userID)
          THEN ToolOut(<<"Error", ": unauthorized to access this note.">>, Nil, ms)
          ELSE IF fault = "write"
          THEN ToolOut(<<"Error", " deleting note: ", "store error">>, Nil, ms)
          ELSE ToolOut(<<"Note successfully and permanently deleted.">>, Nil,
                       [ms EXCEPT ![uid].exists = FALSE])

\* The order in which the store lists notes.
MemoOrder == <<"m1", "m2", "m3">>

\* strings.Contains on the note's content, as the filter
\* content.contains('...') evaluates it; every text contains "".
Contains(content, text) == text = "" \/ \E i \in 1..Len(content) : content[i] = text

\* A date argument: absent, in the layout 2006-01-02 (the day counted from
\* the epoch), or in another shape.
NoDate == [text |-> "", day |-> 0]
BadDate == [text |-> "other", day |-> 0]
DateArg(day) == [text |-> "2006-01-02", day |-> day]
SecondsPerDay == 86400
\* time.Parse("2006-01-02", s) and parsed.Unix().
ParsesAsDate(d) == d.text = "2006-01-02"
Unix(d) == d.day * SecondsPerDay

\* A FindMemo whose CreatorID is nil.
NoCreator == "nobody"

FindMemoUnscoped(userID, texts, after, before) ==
  [creatorID |-> NoCreator, texts |-> texts, after |-> after, before |-> before]

\* store.FindMemo of the listing tools: the creator (CreatorID: &t.userID),
\* the texts the content must contain and the bounds on created_ts.
FindMemo(userID, texts, after, before) ==
  [creatorID |-> userID, texts |-> texts, after |-> after, before |-> before]

AnyCreator(m, find) == TRUE
\* The CreatorID condition of a listing: none when CreatorID is nil.
ByCreator(m, find) == find.creatorID = NoCreator \/ m.creatorID = find.creatorID

\* t.store.ListMemos(ctx, find): the matching notes, in store order.
ListMemos(ms, find) ==
  LET matches(uid) ==
        /\ uid \in DOMAIN ms
        /\ ms[uid].exists
        /\ ByCreator(ms[uid], find)
        /\ \A t \in find.texts : Contains(ms[uid].content, t)
        /\ \A a \in find.after : ms[uid].createdTs >= a
        /\ \A b \in find.before : ms[uid].createdTs <= b
  IN SelectSeq(MemoOrder, matches)

\* preview := r.Content; if len(preview) > n { preview = preview[:n] + "..." }
Preview(content, n) == IF StrLen(content) > n THEN Take(content, n) \o <<"...">> ELSE content

\* The listing loop of list_memos_by_tag and query_memos: one entry per note
\* up to the limit, then the count of the notes left out.
RECURSIVE Listing(_, _, _, _, _)
Listing(ms, uids, i, limit, previewLen) ==
  IF i > Len(uids) THEN << >>
  ELSE IF i > limit THEN <<"... and ", Len(uids) - limit, " more">>
  ELSE <<"[", i, "] Note ", uids[i], ":\n">> \o Preview(ms[uids[i]].content, previewLen)
       \o <<BlankLine>> \o Listing(ms, uids, i + 1, limit, previewLen)

\* shortuuid.New(): a uid no note has.
SpareUIDs == {"m3"}
HasFreshUID(ms) == \E u \in SpareUIDs : ~ms[u].exists
FreshUID(ms) == CHOOSE u \in SpareUIDs : ~ms[u].exists
\* The clock at the creation of a note.
Now == 3 * SecondsPerDay

createMemoTool_Call(userID, args, ms, fault) ==
  IF ~args.json THEN ToolOut(<<"Error", ": failed to parse input JSON.">>, Nil, ms)
  ELSE IF fault = "write" \/ ~HasFreshUID(ms)
  THEN ToolOut(<<"Error", " creating note: ", "store error">>, Nil, ms)
  ELSE ToolOut(<<"Note successfully created with UID: ", FreshUID(ms)>>, Nil,
               [ms EXCEPT ![FreshUID(ms)] =
                  [exists |-> TRUE, creatorID |-> userID,
                   content |-> Field(args, "content", << >>), createdTs |-> Now]])

getUserStatsTool_Call(userID, args, ms, fault) ==
  IF fault = "get" THEN ToolOut(<<"Error", " retrieving stats: ", "store error">>, Nil, ms)
  ELSE ToolOut(<<"User Statistics:\nTotal Active Memos: ",
                 Len(ListMemos(ms, FindMemo(userID, {}, {}, {})))>>, Nil, ms)

listMemosByTagTool_Call(userID, args, ms, fault) ==
  IF ~args.json THEN ToolOut(<<"Error", ": failed to parse input JSON.">>, Nil, ms)
  ELSE LET tag == Field(args, "tag", "")
           found == ListMemos(ms, FindMemo(userID, {tag}, {}, {}))
       IN IF fault = "get" THEN ToolOut(<<"Error", " searching tags: ", "store error">>, Nil, ms)
          ELSE IF found = << >>
          THEN ToolOut(<<"No notes found with the tag ", tag, ".">>, Nil, ms)
          ELSE ToolOut(Listing(ms, found, 1, 10, 300), Nil, ms)

queryMemosTool_CallStrict(userID, args, ms, fault) ==
  IF ~args.json THEN ToolOut(<< >>, [error |-> <<"invalid JSON">>], ms)
  ELSE ToolOut(<<"No notes found matching those criteria.">>, Nil, ms)

EndOfDayExclusive(d) == Unix(d)
\* Line 1021: parsed.Add(24*time.Hour).Unix().
EndOfDay(d) == Unix(d) + 24 * 3600

queryMemosTool_Call(userID, args, ms, fault) ==
  IF ~args.json THEN ToolOut(<<"Error", ": failed to parse input JSON.">>, Nil, ms)
  ELSE LET text == Field(args, "text_search", "")
           start == Field(args, "date_start", NoDate)
           end == Field(args, "date_end", NoDate)
           found == ListMemos(ms, FindMemo(userID,
                      IF text # "" THEN {text} ELSE {},
                      IF ParsesAsDate(start) THEN {Unix(start)} ELSE {},
                      IF ParsesAsDate(end) THEN {EndOfDay(end)} ELSE {}))
       IN IF fault = "get"
          THEN ToolOut(<<"Error", " searching database: ", "store error">>, Nil, ms)
          ELSE IF found = << >>
          THEN ToolOut(<<"No notes found matching those criteria.">>, Nil, ms)
          ELSE ToolOut(Listing(ms, found, 1, 5, 400), Nil, ms)

(***************************************************************************)
(* The vector store (plugin/vectorstore).  A collection holds its          *)
(* documents in the order the similarity engine ranks them for the query;  *)
(* forUser records the userID argument of the UpsertMemo that stored the   *)
(* document.                                                               *)
(***************************************************************************)
\* The int32 ids of the user records; the handler's users are 1 and 12.
UserIDs == {1, 12}
UserID(u) == IF u = "u1" THEN 1 ELSE 12

\* fmt's %d verb: the decimal digits, most significant first.
Digit(d) == <<"0", "1", "2", "3", "4", "5", "6", "7", "8", "9">>[d + 1]
RECURSIVE Decimal(_)
Decimal(n) ==
  IF n < 0 THEN <<"-">> \o Decimal(0 - n)
  ELSE IF n < 10 THEN <<Digit(n)>>
  ELSE Decimal(n \div 10) \o <<Digit(n % 10)>>

collectionNameShared(userID) == <<"user_", "_memos">>
\* collectionName: fmt.Sprintf("user_%d_memos", userID).
collectionName(userID) == <<"user_">> \o Decimal(userID) \o <<"_memos">>

CollectionNames == {collectionName(u) : u \in UserIDs}
NoCollections == [n \in CollectionNames |-> Nil]
EmptyCollection == [docs |-> << >>]
Doc(userID, memoUID, content) == [id |-> memoUID, content |-> content, forUser |-> userID]

\* db.GetCollection: nil when no collection has the name.
GetCollection(cols, name) == IF name \in DOMAIN cols THEN cols[name] ELSE Nil

\* getOrCreateCollection: the user's collection, created empty when missing;
\* nil when the creation fails.
getOrCreateCollection(cols, userID, createOK) ==
  LET name == collectionName(userID)
      col == GetCollection(cols, name)
  IN IF ~IsNil(col) THEN [cols |-> cols, name |-> name, col |-> col]
     ELSE IF createOK
     THEN [cols |-> [cols EXCEPT ![name] = EmptyCollection], name |-> name,
           col |-> EmptyCollection]
     ELSE [cols |-> cols, name |-> name, col |-> Nil]

\* col.AddDocument: a document replaces the one of the same ID.
AddDocument(docs, doc) ==
  IF \E i \in 1..Len(docs) : docs[i].id = doc.id
  THEN [i \in 1..Len(docs) |-> IF docs[i].id = doc.id THEN doc ELSE docs[i]]
  ELSE Append(docs, doc)

\* UpsertMemo(ctx, userID, memoUID, content, tags), the body under mu.Lock.
UpsertMemo(cols, userID, memoUID, content, createOK, addOK) ==
  LET g == getOrCreateCollection(cols, userID, createOK)
  IN IF IsNil(g.col) THEN [cols |-> g.cols, err |-> TRUE]
     ELSE IF ~addOK THEN [cols |-> g.cols, err |-> TRUE]
     ELSE [cols |-> [g.cols EXCEPT ![g.name].docs =
                       AddDocument(@, Doc(userID, memoUID, content))],
           err |-> FALSE]

ClampNever(k, count) == k
\* Lines 99-101: if k > count { k = count }.
Clamp(k, count) == IF k > count THEN count ELSE k

\* The engine's answer to a query it rejects.
Rejected == [results |-> << >>, err |-> TRUE]
\* col.Query(ctx, query, n, nil, nil): the n best documents; the engine
\* refuses a count above the number of documents (comment at lines 106-107).
Query(docs, n) ==
  IF n > Len(docs) THEN Rejected ELSE [results |-> SubSeq(docs, 1, n), err |-> FALSE]

\* Lines 108-116: for attemptK := k; attemptK > 0; attemptK-- { Query; break on
\* success }.  nFail: how many of the attempts the engine rejects on its own
\* before it accepts one.  queries: the counts it was queried with, in order;
\* results, err: what the last attempt returned.
RECURSIVE StepDown(_, _, _)
StepDown(docs, attemptK, nFail) ==
  IF attemptK <= 0 THEN [queries |-> << >>, results |-> << >>, err |-> FALSE]
  ELSE LET a == IF nFail > 0 THEN Rejected ELSE Query(docs, attemptK)
       IN IF ~a.err \/ attemptK = 1
          THEN [queries |-> <<attemptK>>, results |-> a.results, err |-> a.err]
          ELSE LET rest == StepDown(docs, attemptK - 1, IF nFail > 0 THEN nFail - 1 ELSE 0)
               IN [rest EXCEPT !.queries = <<attemptK>> \o @]

AttemptsUnclamped(docs, k, nFail) ==
  LET a == IF nFail > 0 THEN Rejected ELSE Query(docs, k)
  IN [queries |-> <<k>>, results |-> a.results, err |-> a.err]
\* Lines 99-116: the clamp, then the step-down loop.
Attempts(docs, k, nFail) == StepDown(docs, Clamp(k, Len(docs)), nFail)

NoCollectionError == [queries |-> << >>, results |-> << >>, err |-> TRUE]
\* Lines 90-98: a nil or empty collection is an empty answer, not an error.
NoCollectionResult == [queries |-> << >>, results |-> << >>, err |-> FALSE]

\* Lines 114-126: the error of the last attempt, or its results.
Answered(g, count, t) ==
  [cols |-> g.cols, count |-> count, queries |-> t.queries,
   results |-> IF t.err THEN << >> ELSE t.results, err |-> t.err]

\* Lines 91-126: the search in the collection g.col that line 90 obtained.
SearchIn(g, k, nFail) ==
  LET count == IF IsNil(g.col) THEN 0 ELSE Len(g.col.docs)
  IN IF IsNil(g.col) \/ count = 0
     THEN Answered(g, count, NoCollectionResult)
     ELSE Answered(g, count, Attempts(g.col.docs, k, nFail))

\* SearchSimilar(ctx, userID, query, k), the body under mu.RLock.
SearchSimilar(cols, userID, k, createOK, nFail) ==
  SearchIn(getOrCreateCollection(cols, userID, createOK), k, nFail)

(***************************************************************************)
(* The tool registry.                                                      *)
(***************************************************************************)
\* The results of a search, one entry per note.
RECURSIVE Hits(_, _)
Hits(results, i) ==
  IF i > Len(results) THEN << >>
  ELSE <<"[", i, "] Note ", results[i].id, ":\n">> \o Preview(results[i].content, 400)
       \o <<BlankLine>> \o Hits(results, i + 1)

\* A Go error with its message.
Err(msg) == [error |-> msg]

SearchErrorAsText(result, err) == [result |-> <<"Error", ": ">> \o err.error, err |-> Nil]
\* Lines 645-647: the error of SearchSimilar is returned as the tool's error.
SearchError(result, err) == [result |-> result, err |-> err]

\* Lines 645-659: what the tool makes of the answer f of SearchSimilar.
SearchReport(f) ==
  IF f.err THEN SearchError(<< >>, Err(<<"engine error">>))
  ELSE IF f.results = << >> THEN [result |-> <<"No relevant notes found.">>, err |-> Nil]
  ELSE [result |-> Hits(f.results, 1), err |-> Nil]

\* The tool's return values beside the collections the search left.
WithCols(out, f) == [result |-> out.result, err |-> out.err, cols |-> f.cols]
SearchWith(f) == WithCols(SearchReport(f), f)

\* searchMemosTool.Call: the input is the query.  A fault "get" makes the
\* engine reject every attempt, a fault "write" the creation of a collection.
searchMemosTool_Call(userID, args, store, fault) ==
  IF ~store.configured
  THEN [result |-> <<"Vector store not available.">>, err |-> Nil, cols |-> store.cols]
  ELSE SearchWith(SearchSimilar(store.cols, UserID(userID), 5, fault # "write",
                                IF fault = "get" THEN 5 ELSE 0))

\* The keys of toolRegistry.
ToolNames ==
  {"search_memos", "query_memos", "create_memo", "append_to_memo", "update_memo",
   "update_memo_tags", "delete_memo", "get_user_stats", "list_memos_by_tag"}

\* A tool of the note store leaves the vector store alone.
OnNotes(out, store) ==
  [result |-> out.result, err |-> out.err, memos |-> out.memos, cols |-> store.cols]

\* The search tool leaves the note store alone.
OnStore(out, ms) ==
  [result |-> out.result, err |-> out.err, memos |-> ms, cols |-> out.cols]

\* t.Call(ctx, toolInput) of the registry's tool `name`, bound to userID.
ToolCall(name, userID, args, ms, store, fault) ==
  CASE name = "update_memo" -> OnNotes(updateMemoTool_Call(userID, args, ms, fault), store)
    [] name = "append_to_memo" -> OnNotes(appendToMemoTool_Call(userID, args, ms, fault), store)
    [] name = "update_memo_tags" ->
         OnNotes(updateMemoTagsTool_Call(userID, args, ms, fault), store)
    [] name = "delete_memo" -> OnNotes(deleteMemoTool_Call(userID, args, ms, fault), store)
    [] name = "create_memo" -> OnNotes(createMemoTool_Call(userID, args, ms, fault), store)
    [] name = "get_user_stats" -> OnNotes(getUserStatsTool_Call(userID, args, ms, fault), store)
    [] name = "list_memos_by_tag" ->
         OnNotes(listMemosByTagTool_Call(userID, args, ms, fault), store)
    [] name = "query_memos" -> OnNotes(queryMemosTool_Call(userID, args, ms, fault), store)
    [] name = "search_memos" -> OnStore(searchMemosTool_Call(userID, args, store, fault), ms)

(***************************************************************************)
(* What the environment may do.                                            *)
(***************************************************************************)
\* Outcomes of one SQL statement: it may fail while the run has faults left.
Oks == IF env.faults > 0 THEN {TRUE, FALSE} ELSE {TRUE}
SpendFault(e, ok) == IF ok THEN e ELSE [e EXCEPT !.faults = @ - 1]

\* Which store call of a tool fails.
ToolFaults == IF env.faults > 0 THEN {"none", "get", "write"} ELSE {"none"}

Callers == Users \cup {"anon"}
UserContents == {<<"q">>, <<" ">>}

\* The LLM provider's answers to a chat completion.
LLMFailures == {"transport", "decode", "nochoice"}
FinalAnswers == {<< >>, <<" ">>, <<"a1", " ", "a2">>, <<" ", "a1", BlankLine, "a2", " ">>}
SummaryTexts == {<< >>, <<"S1">>, <<"S2">>}
TitleTexts == {<<" ">>, <<" ", "T", " ">>}

CallIDs == {"c1", "c2"}
TC(id, name, args) == [id |-> id, name |-> name, args |-> args]

\* The plain turn: one call that rewrites the caller's own note.
PlainTurn == <<TC("c1", "update_memo", Json([uid |-> "m1", content |-> <<"x">>]))>>

\* The other turns a model may produce: a tool outside the registry; one
\* call sent twice; two calls with their own ids; one id on two different
\* calls; an id repeated after another call; undecodable arguments; a search.
RichTurns ==
  LET unknown(id) == TC(id, "nosuch_tool", Garbage)
      delete(id) == TC(id, "delete_memo", Json([uid |-> "m2"]))
      append(id) == TC(id, "append_to_memo", Json([uid |-> "m1", content |-> <<"y">>]))
  IN {<<unknown("c1")>>,
      <<delete("c1"), delete("c1")>>,
      <<delete("c1"), unknown("c2")>>,
      <<unknown("c1"), append("c1")>>,
      <<append("c1"), append("c2"), append("c1")>>,
      <<TC("c1", "update_memo", Garbage)>>,
      <<TC("c1", "search_memos", Garbage)>>}

\* A model turn: a failure, a final text, or tool calls (with any text).
Replies ==
  {[kind |-> "fail", why |-> w] : w \in env.fails}
  \cup {[kind |-> "final", content |-> a] : a \in env.finals}
  \cup (IF env.tools /\ env.plain
        THEN {[kind |-> "tools", content |-> << >>, calls |-> PlainTurn, rich |-> FALSE]}
        ELSE {})
  \cup (IF env.tools /\ env.rich > 0
        THEN {[kind |-> "tools", content |-> << >>, calls |-> t, rich |-> TRUE] : t \in RichTurns}
        ELSE {})

(***************************************************************************)
(* The chat handler's locals.                                              *)
(***************************************************************************)
IdleReq ==
  [pc |-> "idle", status |-> 0, user |-> "", content |-> << >>, sess |-> Nil,
   dbMsgs |-> << >>, summary |-> << >>, fullSummary |-> << >>, updatedSess |-> Nil, mcIdx |-> 0,
   compactErr |-> FALSE, pre |-> Nil, messages |-> << >>, round |-> 0, toolCalls |-> << >>,
   tcIdx |-> 0, seenCallIDs |-> {}, finalAnswer |-> << >>, log |-> << >>]

\* One entry of a request's trace: an SSE frame written to the response, an
\* LLM call, a tool execution, a message insert.
Emit(type, data) == [kind |-> "emit", type |-> type, data |-> data]
LLMCall(purpose, n) == [kind |-> "llm", type |-> purpose, data |-> <<n>>]
Exec(name, id) == [kind |-> "exec", type |-> name, data |-> <<id>>]
Persist(role, err) == [kind |-> "persist", type |-> role, data |-> <<err>>]
\* A step of maybeCompact ("llm", "update", "delete", "insert") and whether it failed.
McStep(step, err) == [kind |-> "mc", type |-> step, data |-> <<err>>]

Events(log) == SelectSeq(log, LAMBDA e : e.kind = "emit")
EventsOf(log, type) == SelectSeq(log, LAMBDA e : e.kind = "emit" /\ e.type = type)
Count(log, kind, type) == Len(SelectSeq(log, LAMBDA e : e.kind = kind /\ e.type = type))
\* Whether a step of maybeCompact or a message insert of the trace failed.
AnyFailed(log) == \E i \in 1..Len(log) : log[i].kind \in {"mc", "persist"} /\ log[i].data = <<TRUE>>


\* An ownership check that lets every authenticated caller through.
OwnedByAnyone(sess, caller) == TRUE

\* `sess.CreatorID != user.ID` negated (lines 146, 175, 191, 237).
OwnedBy(sess, caller) == sess.creatorID = caller

\* No request to a session endpoint yet.
NoRequest == [n |-> 0, op |-> "", caller |-> "", arg |-> << >>, status |-> 0, body |-> << >>]

\* The n-th request to an endpoint: who called it with what, the HTTP status
\* of the refusal or of the answer (0 while a chat request is being served)
\* and the body of the answer.
Responded(h, op, caller, arg, status, body) ==
  [n |-> h.n + 1, op |-> op, caller |-> caller, arg |-> arg, status |-> status, body |-> body]

(***************************************************************************)
(* handleAIChat, up to the agent loop.                                     *)
(***************************************************************************)
\* Lines 217-239: the configuration, authentication and body checks, then the
\* session is loaded and its ownership checked.  A refused request ends with
\* its HTTP status.
Start(r) ==
  /\ req[r].pc \in {"idle", "finished", "panicked"}
  /\ env.reqs > 0
  /\ \E caller \in Callers, content \in UserContents, ok \in Oks :
       LET sess == IF ok THEN GetAIChatSession(session) ELSE Nil
           status ==
             IF ~apiKey THEN 503
             ELSE IF caller = "anon" THEN 401
             ELSE IF IsBlank(content) THEN 400
             ELSE IF IsNil(sess) THEN 404
             ELSE IF ~OwnedBy(sess, caller) THEN 404
             ELSE 0
       IN /\ req' = [req EXCEPT ![r] =
                       IF status # 0 THEN [IdleReq EXCEPT !.status = status]
                       ELSE [IdleReq EXCEPT !.pc = "list", !.user = caller,
                                            !.content = content, !.sess = sess]]
          /\ http' = Responded(http, "handleAIChat", caller, content, status, << >>)
          /\ env' = SpendFault([env EXCEPT !.reqs = @ - 1], ok)
  /\ UNCHANGED <<apiKey, driver, lastCall, compactions, session, msgTable, nextMsgID, memos, vs, titleTasks>>

\* The client went away: the request's context (line 233) is cancelled.
CtxCancel == [kind |-> "ctx", type |-> "cancel", data |-> << >>]
Cancelled(q) == \E i \in 1..Len(q.log) : q.log[i] = CtxCancel

\* Outcomes of a SQL statement run with the request's context: it fails once
\* the context is cancelled, at no cost to the fault budget.
OksOf(q) == IF Cancelled(q) THEN {FALSE} ELSE Oks
Spend(q, e, ok) == IF Cancelled(q) THEN e ELSE SpendFault(e, ok)

\* The total of maybeCompact (lines 522-525).
RECURSIVE TotalLen(_)
TotalLen(msgs) ==
  IF msgs = << >> THEN 0 ELSE StrLen(Head(msgs).content) + TotalLen(Tail(msgs))

\* A split that takes the first message alone as old.
CutAtFirst(msgs) == 1
\* cutAt of maybeCompact (line 531).
CutAt(msgs) == Len(msgs) - keepRecentMessages

\* A compactor that looks at the total length alone.
CompactsOnLength(key, msgs) == key /\ ~(TotalLen(msgs) <= compactThreshold)

\* Lines 518-534: whether maybeCompact goes on to summarise.
Compacts(key, msgs) ==
  /\ key
  /\ ~(TotalLen(msgs) <= compactThreshold)
  /\ ~(CutAt(msgs) <= 0)

OldOf(msgs) == SubSeq(msgs, 1, CutAt(msgs))
\* A split that keeps one message more.
RecentOfWide(msgs) == SubSeq(msgs, CutAt(msgs), Len(msgs))
RecentOf(msgs) == SubSeq(msgs, CutAt(msgs) + 1, Len(msgs))

\* A re-insert that names every row.
BodyRenamed(m) == [role |-> m.role, content |-> m.content, toolName |-> "kept",
                   tokenCount |-> m.tokenCount]
\* A message without its row id: what a re-inserted row keeps of the original.
Body(m) == [role |-> m.role, content |-> m.content, toolName |-> m.toolName,
            tokenCount |-> m.tokenCount]
Bodies(msgs) == [i \in 1..Len(msgs) |-> Body(msgs[i])]

\* Lines 241-251 and 518-534: the history is listed and maybeCompact is
\* entered; under the threshold it returns at once.
List(r) ==
  /\ req[r].pc = "list"
  /\ \E ok \in OksOf(req[r]) :
       /\ env' = Spend(req[r], env, ok)
       /\ IF ~ok THEN req' = [req EXCEPT ![r] = [IdleReq EXCEPT !.status = 500]]
          ELSE LET msgs == ListAIChatMessages(msgTable)
               IN req' = [req EXCEPT ![r].dbMsgs = msgs,
                                     ![r].pre = [msgs |-> msgs, row |-> session],
                                     ![r].pc = IF Compacts(apiKey, msgs) THEN "mc_llm"
                                               ELSE "persist_user"]
  /\ UNCHANGED <<apiKey, driver, http, lastCall, compactions, session, msgTable, nextMsgID, memos, vs, titleTasks>>

(***************************************************************************)
(* maybeCompact past the threshold checks.                                 *)
(***************************************************************************)
\* A failed compaction that hands back the recent messages only.
McFailDropsHistory(q, step) ==
  [q EXCEPT !.pc = "persist_user", !.compactErr = TRUE, !.fullSummary = << >>,
            !.updatedSess = Nil, !.mcIdx = 0, !.dbMsgs = RecentOf(@),
            !.log = Append(@, McStep(step, TRUE))]

\* `return msgs, sess, err`: the caller keeps its list and session.
McFail(q, step) ==
  [q EXCEPT !.pc = "persist_user", !.compactErr = TRUE, !.fullSummary = << >>,
            !.updatedSess = Nil, !.mcIdx = 0, !.log = Append(@, McStep(step, TRUE))]

\* Lines 551-557: the new summary after the session's existing one.
FullSummary(existingSummary, summary) ==
  IF existingSummary # << >> THEN existingSummary \o <<BlankLine>> \o summary ELSE summary

\* callLLM(ctx, prompt): an error, or the model's text; with the context
\* cancelled http.DefaultClient.Do fails (lines 1103-1115).
SummaryReplies(q) ==
  IF Cancelled(q) THEN {Nil} ELSE {Nil} \cup {[content |-> t] : t \in SummaryTexts}

\* Lines 538-557: callLLM on the old messages.
McLLM(r) ==
  /\ req[r].pc = "mc_llm"
  /\ \E reply \in SummaryReplies(req[r]) :
       req' = [req EXCEPT ![r] =
                 IF IsNil(reply) THEN McFail(@, "llm")
                 ELSE [@ EXCEPT !.pc = "mc_update", !.summary = reply.content,
                                !.fullSummary = FullSummary(req[r].sess.summary, reply.content),
                                !.log = Append(@, McStep("llm", FALSE))]]
  /\ UNCHANGED <<apiKey, driver, http, lastCall, compactions, session, msgTable, nextMsgID, memos, vs, titleTasks, env>>

\* Lines 559-565: the summary is stored on the session.
McUpdate(r) ==
  /\ req[r].pc = "mc_update"
  /\ \E ok \in OksOf(req[r]) :
       LET u == UpdateAIChatSession(driver, session,
                  [uid |-> req[r].sess.uid, title |-> Unset,
                   summary |-> SetTo(req[r].fullSummary)], ok)
       IN /\ session' = u.row
          /\ env' = Spend(req[r], env, ok)
          /\ req' = [req EXCEPT ![r] =
                       IF u.err THEN McFail(@, "update")
                       ELSE [@ EXCEPT !.pc = "mc_delete", !.updatedSess = u.ret,
                                      !.log = Append(@, McStep("update", FALSE))]]
  /\ UNCHANGED <<apiKey, driver, http, lastCall, compactions, msgTable, nextMsgID, memos, vs, titleTasks>>

\* Lines 567-570: every message of the session is deleted.
McDelete(r) ==
  /\ req[r].pc = "mc_delete"
  /\ \E ok \in OksOf(req[r]) :
       LET d == DeleteAIChatMessages(msgTable, ok)
       IN /\ msgTable' = d.table
          /\ env' = Spend(req[r], env, ok)
          /\ req' = [req EXCEPT ![r] =
                       IF d.err THEN McFail(@, "delete")
                       ELSE [@ EXCEPT !.pc = "mc_insert", !.mcIdx = 1,
                                      !.log = Append(@, McStep("delete", FALSE))]]
  /\ UNCHANGED <<apiKey, driver, http, lastCall, compactions, session, nextMsgID, memos, vs, titleTasks>>

\* Lines 571-583: the recent messages are inserted again, one per step, the
\* result of each insert dropped; after the last, maybeCompact returns
\* (recent, updatedSess, nil).
McInsert(r) ==
  /\ req[r].pc = "mc_insert"
  /\ \E ok \in OksOf(req[r]) :
       LET recent == RecentOf(req[r].dbMsgs)
           m == recent[req[r].mcIdx]
           c == CreateAIChatMessage(session, msgTable, nextMsgID, Body(m), ok)
           log == Append(req[r].log, McStep("insert", c.err))
       IN /\ msgTable' = c.table
          /\ nextMsgID' = c.nextID
          /\ env' = Spend(req[r], env, ok)
          /\ compactions' =
               IF req[r].mcIdx < Len(recent) THEN compactions
               ELSE Append(compactions, [summary |-> req[r].summary, stored |-> session.summary,
                                         clean |-> ~AnyFailed(log)])
          /\ req' = [req EXCEPT ![r] =
                       IF @.mcIdx < Len(recent)
                       THEN [@ EXCEPT !.mcIdx = @ + 1, !.log = log]
                       ELSE [@ EXCEPT !.pc = "persist_user", !.dbMsgs = recent,
                                      !.sess = req[r].updatedSess, !.compactErr = FALSE,
                                      !.fullSummary = << >>, !.updatedSess = Nil,
                                      !.mcIdx = 0, !.log = log]]
  /\ UNCHANGED <<apiKey, driver, http, lastCall, session, memos, vs, titleTasks>>


(***************************************************************************)
(* handleAIChat: the stream, the user message, the agent loop.             *)
(***************************************************************************)
\* buildSystemPrompt(summary, now)
buildSystemPrompt(summary) ==
  IF summary # << >>
  THEN <<"BASE", BlankLine, "Summary of earlier conversation:">> \o summary
  ELSE <<"BASE">>

Msg(role, content) ==
  [role |-> role, content |-> content, toolCalls |-> << >>, toolCallID |-> ""]

\* A list that takes over every stored message.
BuildMessagesUnfiltered(sess, dbMsgs, content) ==
  <<Msg("system", buildSystemPrompt(sess.summary))>>
  \o [i \in 1..Len(dbMsgs) |-> Msg(dbMsgs[i].role, dbMsgs[i].content)]
  \o <<Msg("user", content)>>

\* Lines 347-357: the system entry, the stored user and assistant turns, the
\* new user utterance.
BuildMessages(sess, dbMsgs, content) ==
  <<Msg("system", buildSystemPrompt(sess.summary))>>
  \o [i \in 1..Len(SelectSeq(dbMsgs, LAMBDA m : m.role = "user" \/ m.role = "assistant")) |->
        LET m == SelectSeq(dbMsgs, LAMBDA x : x.role = "user" \/ x.role = "assistant")[i]
        IN Msg(m.role, m.content)]
  \o <<Msg("user", content)>>

\* A loop condition that admits one round more.
LoopHeadInclusive(round) == IF round <= maxAgentRounds THEN "llm" ELSE "finish"

\* The loop condition of line 364: where control goes with `round`.
LoopHead(round) == IF round < maxAgentRounds THEN "llm" ELSE "finish"

\* A title task for every request on a session still called "New Chat".
StartsTitleOnName(dbMsgs, sess) == sess.title = <<"New Chat">>

\* Line 291: whether the request starts the title task.
StartsTitle(dbMsgs, sess) == Len(dbMsgs) = 0 /\ sess.title = <<"New Chat">>

\* A started autoTitleSession(sessionUID, firstMessage); renamed: the rename
\* endpoint has stored a title since the task was started.
TitleTask(uid, firstMessage) == [uid |-> uid, firstMessage |-> firstMessage, renamed |-> FALSE]

\* Lines 253-362: the SSE response is opened, the user message inserted (a
\* failure is only logged), the title task started on a first message, the
\* message list built.  sess.ID on a nil session is a nil dereference.
PersistUser(r) ==
  /\ req[r].pc = "persist_user"
  /\ IF IsNil(req[r].sess)
     THEN /\ req' = [req EXCEPT ![r].pc = "panicked", ![r].status = 200]
          /\ UNCHANGED <<msgTable, nextMsgID, titleTasks, env>>
     ELSE \E ok \in OksOf(req[r]) :
            LET q == req[r]
                c == CreateAIChatMessage(session, msgTable, nextMsgID,
                       [role |-> "user", content |-> q.content, toolName |-> "",
                        tokenCount |-> TokenCount(q.content)], ok)
            IN /\ msgTable' = c.table
               /\ nextMsgID' = c.nextID
               /\ env' = Spend(req[r], env, ok)
               /\ titleTasks' =
                    IF StartsTitle(q.dbMsgs, q.sess)
                    THEN Append(titleTasks, TitleTask(q.sess.uid, q.content))
                    ELSE titleTasks
               /\ req' = [req EXCEPT ![r].pc = LoopHead(0), ![r].status = 200,
                                     ![r].round = 0,
                                     ![r].messages = BuildMessages(q.sess, q.dbMsgs, q.content),
                                     ![r].log = Append(@, Persist("user", c.err))]
  /\ UNCHANGED <<apiKey, driver, http, lastCall, compactions, session, memos, vs>>

\* The content of the error event of a failed LLM call (lines 385, 406).
LLMErrorText(why) ==
  IF why = "transport" THEN <<"LLM request failed: ", "transport error">>
  ELSE <<"failed to decode LLM response">>

\* A failure handling that reports the error and calls the model again.
LLMFailedRetry(q, called, why) ==
  [q EXCEPT !.pc = "llm", !.log = Append(called, Emit("error", LLMErrorText(why)))]

\* A failed call that leaves a piece of text as the answer.
LLMFailedWithAnswer(q, called, why) ==
  [q EXCEPT !.pc = "finish", !.finalAnswer = <<"a1">>,
            !.log = Append(called, Emit("error", LLMErrorText(why)))]

\* Lines 383-409: a failed call ends the loop with an error event.
LLMFailed(q, called, why) ==
  [q EXCEPT !.pc = "finish", !.log = Append(called, Emit("error", LLMErrorText(why)))]

\* A provider that answers whatever became of the request's context.
RepliesIgnoringCtx(q) == Replies

\* Lines 373-387, 404: the call is made with the request's context; once that
\* is cancelled Do fails, or the read of a body already under way does.
RepliesOn(q) ==
  IF Cancelled(q)
  THEN {[kind |-> "fail", why |-> w] : w \in env.fails \cap {"transport", "decode"}}
  ELSE Replies

\* Lines 364-426: one LLM call of the loop and what its answer leads to.
\* (http.NewRequestWithContext cannot fail on the constant method and URL.)
LLMStep(r) ==
  /\ req[r].pc = "llm"
  /\ \E reply \in RepliesOn(req[r]) :
       LET called == Append(req[r].log, LLMCall("agent", req[r].round))
       IN /\ env' = IF reply.kind = "tools" /\ reply.rich
                    THEN [env EXCEPT !.rich = @ - 1] ELSE env
          /\ req' = [req EXCEPT ![r] =
               CASE reply.kind = "fail" -> LLMFailed(@, called, reply.why)
                 [] reply.kind = "final" ->
                      [@ EXCEPT !.pc = "finish", !.finalAnswer = reply.content,
                                !.log = called]
                 [] reply.kind = "tools" ->
                      [@ EXCEPT !.pc = "dispatch", !.toolCalls = reply.calls, !.tcIdx = 1,
                                !.seenCallIDs = {},
                                !.messages = Append(@, [role |-> "assistant",
                                                        content |-> reply.content,
                                                        toolCalls |-> reply.calls,
                                                        toolCallID |-> ""]),
                                !.log = called]]
  /\ UNCHANGED <<apiKey, driver, http, lastCall, compactions, session, msgTable, nextMsgID, memos, vs, titleTasks>>

\* Lines 444-448: the outcome of a call; an error becomes the text "Error: ...".
Called(out) ==
  [toolResult |-> IF ~IsNil(out.err) THEN <<"Error", ": ">> \o out.err.error ELSE out.result,
   memos |-> out.memos, cols |-> out.cols, called |-> TRUE, result |-> out.result,
   err |-> out.err]

\* Lines 442-450: the registry lookup and the call; every outcome is a text.
DispatchTool(name, userID, args, ms, store, fault) ==
  IF name \in ToolNames
  THEN Called(ToolCall(name, userID, args, ms, store, fault))
  ELSE [toolResult |-> <<"Unknown tool: ", name>>, memos |-> ms, cols |-> store.cols,
        called |-> FALSE, result |-> << >>, err |-> Nil]

\* A dispatch that never skips.
SeenNever(seenCallIDs, id) == FALSE

\* Line 432: whether the call is skipped as a repeat of this turn.
SeenBefore(seenCallIDs, id) == id \in seenCallIDs

AfterCallEager(q) ==
  [q EXCEPT !.tcIdx = 0, !.toolCalls = << >>, !.seenCallIDs = {},
            !.round = @ + 1, !.pc = LoopHead(q.round + 1)]
\* After the last call of the turn the round ends (line 364's round++).
AfterCall(q) ==
  IF q.tcIdx < Len(q.toolCalls) THEN [q EXCEPT !.tcIdx = @ + 1]
  ELSE [q EXCEPT !.tcIdx = 0, !.toolCalls = << >>, !.seenCallIDs = {},
                 !.round = @ + 1, !.pc = LoopHead(q.round + 1)]

ToolEventsExecFirst(tc, called) ==
  (IF called THEN <<Exec(tc.name, tc.id)>> ELSE << >>)
  \o <<Emit("tool_call", [name |-> tc.name, input |-> tc.args])>>
\* Lines 439-444: the tool_call event with the name and the raw arguments,
\* then the call of a registered tool.
ToolEvents(tc, called) ==
  <<Emit("tool_call", [name |-> tc.name, input |-> tc.args])>>
  \o (IF called THEN <<Exec(tc.name, tc.id)>> ELSE << >>)

AfterOutcomeFatal(q, d) ==
  IF d.called /\ IsNil(d.err) THEN AfterCall(q)
  ELSE [q EXCEPT !.pc = "finish", !.log = Append(@, Emit("error", d.toolResult))]
\* Lines 442-458: whatever the dispatch gave, the loop goes on to the next
\* call of the turn.
AfterOutcome(q, d) == AfterCall(q)

\* A fault is drawn only where the call reaches the store call that fails.
FaultMet(name, userID, args, ms, store, fault) ==
  \/ fault = "none"
  \/ /\ name \in ToolNames
     /\ ToolCall(name, userID, args, ms, store, fault)
          # ToolCall(name, userID, args, ms, store, "none")

\* The store calls of a tool run with the request's context (line 444): once
\* it is cancelled the first one the call reaches fails.
ToolFaultsOn(q, tc) ==
  IF ~Cancelled(q) THEN ToolFaults
  ELSE IF FaultMet(tc.name, q.user, tc.args, memos, vs, "get") THEN {"get"}
  ELSE IF FaultMet(tc.name, q.user, tc.args, memos, vs, "write") THEN {"write"}
  ELSE {"none"}

\* An entry that names the tool where the call's id belongs.
ToolResponseByName(tc, d) ==
  [role |-> "tool", content |-> d.toolResult, toolCalls |-> << >>, toolCallID |-> tc.name]
\* Lines 453-457: the tool-role entry that answers the call tc.
ToolResponse(tc, d) ==
  [role |-> "tool", content |-> d.toolResult, toolCalls |-> << >>, toolCallID |-> tc.id]

\* Lines 437-458: the call tc of request r gave d.
Dispatched(r, q, tc, fault, d) ==
  /\ memos' = d.memos
  /\ vs' = [vs EXCEPT !.cols = d.cols]
  /\ lastCall' = IF d.called
                  THEN [name |-> tc.name, userID |-> q.user, args |-> tc.args,
                        before |-> memos, result |-> d.result, err |-> d.err,
                        fault |-> fault]
                  ELSE lastCall
  /\ env' = Spend(q, env, fault = "none")
  /\ req' = [req EXCEPT ![r] =
       AfterOutcome([q EXCEPT
         !.seenCallIDs = @ \cup {tc.id},
         !.log = @ \o ToolEvents(tc, d.called),
         !.messages = Append(@, ToolResponse(tc, d))], d)]

\* Lines 431-458: the next tool call of the turn.
Dispatch(r) ==
  /\ req[r].pc = "dispatch"
  /\ LET q == req[r]
         tc == q.toolCalls[q.tcIdx]
     IN IF SeenBefore(q.seenCallIDs, tc.id)
        THEN /\ req' = [req EXCEPT ![r] = AfterCall(q)]
             /\ UNCHANGED <<memos, vs, lastCall, env>>
        ELSE \E fault \in ToolFaultsOn(q, tc) :
               /\ FaultMet(tc.name, q.user, tc.args, memos, vs, fault)
               /\ Dispatched(r, q, tc, fault,
                             DispatchTool(tc.name, q.user, tc.args, memos, vs, fault))
  /\ UNCHANGED <<apiKey, driver, http, compactions, session, msgTable, nextMsgID, titleTasks>>


(***************************************************************************)
(* handleAIChat after the loop.                                            *)
(***************************************************************************)
\* A stream of the answer's pieces as they are, whitespace included.
TokenEventsRaw(finalAnswer) ==
  [i \in 1..Len(finalAnswer) |-> Emit("token", <<finalAnswer[i]>>)]

\* The token events of lines 463-468: one per word, the word and a space.
TokenEvents(finalAnswer) ==
  IF finalAnswer # << >>
  THEN [i \in 1..Len(Fields(finalAnswer)) |-> Emit("token", <<Fields(finalAnswer)[i], " ">>)]
  ELSE << >>

\* An answer stored whatever it is.
StoresAlways(finalAnswer) == TRUE

\* Whether the answer is stored (line 471).
StoresAnswer(finalAnswer) == finalAnswer # << >>

\* Lines 461-480: the answer is streamed word by word, then stored.
Finish(r) ==
  /\ req[r].pc = "finish"
  /\ LET q == req[r]
         streamed == q.log \o TokenEvents(q.finalAnswer)
     IN IF StoresAnswer(q.finalAnswer)
        THEN \E ok \in OksOf(req[r]) :
               LET c == CreateAIChatMessage(session, msgTable, nextMsgID,
                          [role |-> "assistant", content |-> q.finalAnswer, toolName |-> "",
                           tokenCount |-> TokenCount(q.finalAnswer)], ok)
               IN /\ msgTable' = c.table
                  /\ nextMsgID' = c.nextID
                  /\ env' = Spend(req[r], env, ok)
                  /\ req' = [req EXCEPT ![r].pc = "sources",
                                        ![r].log = Append(streamed, Persist("assistant", c.err))]
        ELSE /\ req' = [req EXCEPT ![r].pc = "sources", ![r].log = streamed]
             /\ UNCHANGED <<msgTable, nextMsgID, env>>
  /\ UNCHANGED <<apiKey, driver, http, lastCall, compactions, session, memos, vs, titleTasks>>

\* One entry of the trace: the search of line 484 for `query`, asking for k
\* results, and whether it returned an error.
Citation(query, k, err) == [kind |-> "search", type |-> "citation", data |-> <<query, k, err>>]

\* Every source sent twice.
SourceEventsTwice(results) ==
  [i \in 1..(2 * Len(results)) |->
     Emit("source", [memo_uid |-> results[(i + 1) \div 2].id,
                     snippet |-> Take(results[(i + 1) \div 2].content, 200)])]

\* Lines 485-490: one source event per result, with the first 200 characters.
SourceEvents(results) ==
  [i \in 1..Len(results) |->
     Emit("source", [memo_uid |-> results[i].id, snippet |-> Take(results[i].content, 200)])]

\* How many attempts of a search the engine rejects: the query is embedded
\* with the request's context, so every attempt fails once it is cancelled.
EngineFailures(q) ==
  IF Cancelled(q) THEN {3} ELSE IF env.faults > 0 THEN 0..3 ELSE {0}

\* Lines 484-490: what the handler does with the answer f of the search.
Sourced(r, f, ok) ==
  /\ vs' = [vs EXCEPT !.cols = f.cols]
  /\ env' = Spend(req[r], env, ok)
  /\ req' = [req EXCEPT ![r].pc = "touch",
                        ![r].log = Append(@, Citation(req[r].content, 3, f.err))
                                   \o SourceEvents(f.results)]

\* Lines 482-491: the citation search; its error is dropped.
Sources(r) ==
  /\ req[r].pc = "sources"
  /\ IF vs.configured
     THEN \E createOK \in Oks, nFail \in EngineFailures(req[r]) :
            /\ createOK \/ nFail = 0 \/ Cancelled(req[r])
            /\ Sourced(r, SearchSimilar(vs.cols, UserID(req[r].user), 3, createOK, nFail),
                       createOK /\ nFail = 0)
     ELSE /\ req' = [req EXCEPT ![r].pc = "touch"]
          /\ UNCHANGED <<vs, env>>
  /\ UNCHANGED <<apiKey, driver, http, lastCall, compactions, session, msgTable, nextMsgID, memos, titleTasks>>

\* The update of lines 493-499: Title nil, Summary a pointer to "".
TouchUpdate(uid) == [uid |-> uid, title |-> Unset, summary |-> SetTo(<< >>)]

\* Lines 493-503: the session is updated (the result dropped) and done is sent.
Touch(r) ==
  /\ req[r].pc = "touch"
  /\ \E ok \in OksOf(req[r]) :
       LET u == UpdateAIChatSession(driver, session, TouchUpdate(SessionUID), ok)
       IN /\ session' = u.row
          /\ env' = Spend(req[r], env, ok)
          /\ req' = [req EXCEPT ![r].pc = "finished",
                                ![r].log = Append(@, Emit("done", <<SessionUID>>))]
  /\ UNCHANGED <<apiKey, driver, http, lastCall, compactions, msgTable, nextMsgID, memos, vs, titleTasks>>

\* The client disconnects while the request is served: net/http cancels the
\* request's context.
Disconnect(r) ==
  /\ req[r].pc \notin {"idle", "finished", "panicked"}
  /\ ~Cancelled(req[r])
  /\ req' = [req EXCEPT ![r].log = Append(@, CtxCancel)]
  /\ UNCHANGED <<apiKey, driver, http, lastCall, compactions, session, msgTable, nextMsgID,
                 memos, vs, titleTasks, env>>

(***************************************************************************)
(* The detached title task and the session's deletion.                     *)
(***************************************************************************)
RemoveAt(q, i) == SubSeq(q, 1, i - 1) \o SubSeq(q, i + 1, Len(q))

\* autoTitleSession: callLLM, then the trimmed title is stored; an error or
\* a blank title changes nothing.
AutoTitle ==
  /\ \E i \in 1..Len(titleTasks), reply \in {Nil} \cup {[content |-> t] : t \in TitleTexts},
        ok \in Oks :
       LET u == UpdateAIChatSession(driver, session,
                  [uid |-> titleTasks[i].uid, title |-> SetTo(TrimSpace(reply.content)),
                   summary |-> Unset], ok)
       IN /\ titleTasks' = RemoveAt(titleTasks, i)
          /\ IF IsNil(reply) \/ IsBlank(reply.content)
             THEN ok /\ UNCHANGED <<session, env>>
             ELSE session' = u.row /\ env' = SpendFault(env, ok)
  /\ UNCHANGED <<apiKey, driver, http, lastCall, compactions, msgTable, nextMsgID, memos, vs, req>>

\* deleteAIChatSession: the owner's session row goes, and with it (ON DELETE
\* CASCADE) its messages; anyone else gets 404.
DeleteSession ==
  /\ session.exists
  /\ \E caller \in Users, ok \in Oks :
       /\ env' = SpendFault(env, ok)
       /\ IF ok /\ session.creator = caller
          THEN session' = [session EXCEPT !.exists = FALSE] /\ msgTable' = {}
          ELSE UNCHANGED <<session, msgTable>>
  /\ UNCHANGED <<apiKey, driver, http, lastCall, compactions, nextMsgID, memos, vs, titleTasks, req>>

(***************************************************************************)
(* The session endpoints beside the chat: rename, list the messages,       *)
(* delete.  Each loads the session and compares its creator with the       *)
(* caller before it does anything else.                                    *)
(***************************************************************************)
\* Requests to these endpoints in a run.
MaxEndpointCalls == 2

\* The titles a rename may carry: none, or a new one.
NewTitles == {<< >>, <<"T2">>}

\* Lines 140-148, 170-177, 186-193: requireAuth, then the session is loaded
\* and its ownership checked; 0 when the caller may go on.
Refusal(caller, sess) ==
  IF caller = "anon" THEN 401
  ELSE IF IsNil(sess) THEN 404
  ELSE IF ~OwnedBy(sess, caller) THEN 404
  ELSE 0

\* The second store call of an endpoint fails only where it is reached, and
\* not in a request whose first one failed.
Reached(refusal, getOK, ok) == ok \/ (getOK /\ refusal = 0)

\* updateAIChatSession: the owner renames the session.
updateAIChatSession ==
  /\ env.calls > 0
  /\ \E caller \in Callers, title \in NewTitles, getOK \in Oks, ok \in Oks :
       LET sess == IF getOK THEN GetAIChatSession(session) ELSE Nil
           refusal == Refusal(caller, sess)
           u == UpdateAIChatSession(driver, session,
                  [uid |-> SessionUID, title |-> SetTo(title), summary |-> Unset], ok)
           status == IF refusal # 0 THEN refusal
                     ELSE IF title = << >> THEN 400
                     ELSE IF u.err THEN 500
                     ELSE 200
       IN /\ Reached(IF refusal = 0 /\ title = << >> THEN 400 ELSE refusal, getOK, ok)
          /\ session' = IF status \in {200, 500} THEN u.row ELSE session
          /\ http' = Responded(http, "updateAIChatSession", caller, title, status,
                                IF status = 200 THEN u.ret.title ELSE << >>)
          /\ env' = SpendFault(SpendFault([env EXCEPT !.calls = @ - 1], getOK), ok)
          /\ titleTasks' = IF status # 200 THEN titleTasks
                           ELSE [i \in 1..Len(titleTasks) |->
                                   [titleTasks[i] EXCEPT !.renamed = TRUE]]
  /\ UNCHANGED <<apiKey, driver, lastCall, compactions, msgTable, nextMsgID, memos, vs, req>>

\* listAIChatMessages: the owner reads the stored messages.
listAIChatMessages ==
  /\ env.calls > 0
  /\ \E caller \in Callers, getOK \in Oks, ok \in Oks :
       LET sess == IF getOK THEN GetAIChatSession(session) ELSE Nil
           refusal == Refusal(caller, sess)
           status == IF refusal # 0 THEN refusal ELSE IF ~ok THEN 500 ELSE 200
       IN /\ Reached(refusal, getOK, ok)
          /\ http' = Responded(http, "listAIChatMessages", caller, << >>, status,
                                IF status = 200 THEN ListAIChatMessages(msgTable) ELSE << >>)
          /\ env' = SpendFault(SpendFault([env EXCEPT !.calls = @ - 1], getOK), ok)
  /\ UNCHANGED <<apiKey, driver, lastCall, compactions, session, msgTable, nextMsgID, memos,
                 vs, titleTasks, req>>

\* deleteAIChatSession: the owner deletes the session, and with it (ON
\* DELETE CASCADE) its messages.
deleteAIChatSession ==
  /\ env.calls > 0
  /\ \E caller \in Callers, getOK \in Oks, ok \in Oks :
       LET sess == IF getOK THEN GetAIChatSession(session) ELSE Nil
           refusal == Refusal(caller, sess)
           status == IF refusal # 0 THEN refusal ELSE IF ~ok THEN 500 ELSE 204
       IN /\ Reached(refusal, getOK, ok)
          /\ IF status = 204
             THEN session' = [session EXCEPT !.exists = FALSE] /\ msgTable' = {}
             ELSE UNCHANGED <<session, msgTable>>
          /\ http' = Responded(http, "deleteAIChatSession", caller, << >>, status, << >>)
          /\ env' = SpendFault(SpendFault([env EXCEPT !.calls = @ - 1], getOK), ok)
  /\ UNCHANGED <<apiKey, driver, lastCall, compactions, nextMsgID, memos, vs, titleTasks, req>>

(***************************************************************************)
(* A tool of the registry invoked on its own.                              *)
(***************************************************************************)
MutatingTools == {"update_memo", "append_to_memo", "update_memo_tags", "delete_memo"}

\* Raw arguments: undecodable, every field set, or the uid alone.
ToolArgs ==
  {Garbage}
  \cup {Json([uid |-> u, content |-> <<"x">>, new_tags |-> <<"#a", "#b">>, tag |-> u,
              text_search |-> u, date_start |-> DateArg(1), date_end |-> BadDate]) :
          u \in MemoUIDs \cup {"m9"}}
  \cup {Json([uid |-> u]) : u \in MemoUIDs}

\* t.Call(ctx, toolInput) on the tool `name` of a registry bound to userID.
Invoke ==
  /\ env.calls > 0
  /\ \E name \in ToolNames, userID \in Users, args \in ToolArgs, fault \in ToolFaults :
       LET out == ToolCall(name, userID, args, memos, vs, fault)
       IN /\ name = "create_memo" => HasFreshUID(memos)
          /\ FaultMet(name, userID, args, memos, vs, fault)
          /\ memos' = out.memos
          /\ vs' = [vs EXCEPT !.cols = out.cols]
          /\ lastCall' = [name |-> name, userID |-> userID, args |-> args, before |-> memos,
                          result |-> out.result, err |-> out.err, fault |-> fault]
          /\ env' = SpendFault([env EXCEPT !.calls = @ - 1], fault = "none")
  /\ UNCHANGED <<apiKey, driver, http, compactions, session, msgTable, nextMsgID, titleTasks, req>>

\* The tools that only read, each with the inputs a model may send it.
ReadTools == {"query_memos", "list_memos_by_tag", "get_user_stats", "search_memos"}
Days == {1, 2}
ReadArgs(name) ==
  CASE name = "get_user_stats" -> {Json(<< >>)}
    [] name = "search_memos" -> {Json([query |-> "b"])}
    [] name = "list_memos_by_tag" -> {Garbage} \cup {Json([tag |-> t]) : t \in {"", "b"}}
    [] name = "query_memos" ->
         {Garbage}
         \cup {Json([text_search |-> "", date_start |-> s, date_end |-> e]) :
                 s \in {NoDate} \cup {DateArg(d) : d \in Days},
                 e \in {NoDate, BadDate} \cup {DateArg(d) : d \in Days}}
         \cup {Json([text_search |-> "b", date_start |-> d, date_end |-> d]) :
                 d \in {NoDate, DateArg(2)}}

\* t.Call(ctx, toolInput) on a reading tool of a registry bound to userID.
InvokeRead ==
  /\ env.calls > 0
  /\ \E name \in ReadTools, userID \in Users :
       \E args \in ReadArgs(name) :
         LET out == ToolCall(name, userID, args, memos, vs, "none")
         IN /\ memos' = out.memos
            /\ vs' = [vs EXCEPT !.cols = out.cols]
            /\ lastCall' = [name |-> name, userID |-> userID, args |-> args, before |-> memos,
                            result |-> out.result, err |-> out.err, fault |-> "none"]
            /\ env' = [env EXCEPT !.calls = @ - 1]
  /\ UNCHANGED <<apiKey, driver, http, compactions, session, msgTable, nextMsgID, titleTasks, req>>

(***************************************************************************)
(* Concurrent calls on one Store.  Each caller takes Store.mu, runs the    *)
(* body of its method and releases the lock in the deferred unlock.        *)
(***************************************************************************)
MaxVsCalls == 3
MaxK == 3
Ks == 0..MaxK
Procs == {"p1", "p2", "p3"}

\* Store.mu, a sync.RWMutex: held by one writer or by a number of readers.
Unlocked == [writer |-> FALSE, readers |-> 0]
\* user: the user whose collection the call found missing; created: the call
\* has run db.CreateCollection.
IdleCall == [pc |-> "idle", op |-> "none", user |-> 0, created |-> FALSE]

CanLockAlways(mu) == TRUE
\* mu.Lock() returns once no reader and no writer holds the lock.
CanLock(mu) == ~mu.writer /\ mu.readers = 0
\* mu.RLock() returns once no writer holds the lock.
CanRLock(mu) == ~mu.writer

VsUnchanged == <<apiKey, driver, http, session, msgTable, nextMsgID, memos, titleTasks, req,
                 lastCall, compactions>>

\* A goroutine calls UpsertMemo or SearchSimilar; the arguments are drawn
\* where the body first uses them.
VsCall(p) ==
  /\ vs.configured
  /\ vs.calls[p].pc = "idle"
  /\ env.calls > 0
  /\ \E op \in {"UpsertMemo", "SearchSimilar"} :
       vs' = [vs EXCEPT !.calls[p] = [IdleCall EXCEPT !.pc = "waiting", !.op = op]]
  /\ env' = [env EXCEPT !.calls = @ - 1]
  /\ UNCHANGED VsUnchanged

\* Line 67: s.mu.Lock().
VsLock(p) ==
  /\ vs.calls[p].pc = "waiting"
  /\ vs.calls[p].op = "UpsertMemo"
  /\ CanLock(vs.mu)
  /\ vs' = [vs EXCEPT !.mu.writer = TRUE, !.calls[p].pc = "inside"]
  /\ UNCHANGED <<env, VsUnchanged>>

\* Line 87: s.mu.RLock().
VsRLock(p) ==
  /\ vs.calls[p].pc = "waiting"
  /\ vs.calls[p].op = "SearchSimilar"
  /\ CanRLock(vs.mu)
  /\ vs' = [vs EXCEPT !.mu.readers = @ + 1, !.calls[p].pc = "inside"]
  /\ UNCHANGED <<env, VsUnchanged>>

\* The call that took cols to after ran db.CreateCollection for userID.
Creates(cols, after, userID) ==
  /\ IsNil(GetCollection(cols, collectionName(userID)))
  /\ ~IsNil(GetCollection(after, collectionName(userID)))

\* Lines 70-82: the body of UpsertMemo.
VsUpsert(p) ==
  /\ vs.calls[p].pc = "inside"
  /\ vs.calls[p].op = "UpsertMemo"
  /\ \E u \in UserIDs, m \in MemoUIDs, createOK \in Oks, addOK \in Oks :
       LET f == UpsertMemo(vs.cols, u, m, <<m>>, createOK, addOK)
       IN /\ createOK \/ addOK
          /\ createOK \/ IsNil(GetCollection(vs.cols, collectionName(u)))
          /\ vs' = [vs EXCEPT !.cols = f.cols, !.calls[p].pc = "leaving",
                              !.calls[p].created = Creates(vs.cols, f.cols, u),
                              !.calls[p].user = IF Creates(vs.cols, f.cols, u) THEN u ELSE 0,
                              !.last = [op |-> "UpsertMemo", userID |-> u, memoUID |-> m,
                                        err |-> f.err]]
          /\ env' = SpendFault(env, createOK /\ addOK)
  /\ UNCHANGED VsUnchanged

\* Lines 90-126: the body of SearchSimilar, no other caller running between
\* its db.GetCollection and its db.CreateCollection.
VsSearch(p) ==
  /\ vs.calls[p].pc = "inside"
  /\ vs.calls[p].op = "SearchSimilar"
  /\ \E u \in UserIDs, k \in Ks, createOK \in Oks,
        nFail \in IF env.faults > 0 THEN 0..MaxK ELSE {0} :
       LET f == SearchSimilar(vs.cols, u, k, createOK, nFail)
       IN /\ createOK \/ nFail = 0
          /\ createOK \/ IsNil(GetCollection(vs.cols, collectionName(u)))
          /\ nFail <= Len(f.queries)
          /\ vs' = [vs EXCEPT !.cols = f.cols, !.calls[p].pc = "leaving",
                              !.calls[p].created = Creates(vs.cols, f.cols, u),
                              !.calls[p].user = IF Creates(vs.cols, f.cols, u) THEN u ELSE 0,
                              !.last = [op |-> "SearchSimilar", userID |-> u, k |-> k,
                                        count |-> f.count, queries |-> f.queries,
                                        results |-> f.results, err |-> f.err,
                                        nFail |-> nFail]]
          /\ env' = SpendFault(env, createOK /\ nFail = 0)
  /\ UNCHANGED VsUnchanged

\* Lines 90 and 52-53: SearchSimilar calls getOrCreateCollection, whose
\* db.GetCollection finds no collection of the user.
VsLookup(p) ==
  /\ vs.calls[p].pc = "inside"
  /\ vs.calls[p].op = "SearchSimilar"
  /\ \E u \in UserIDs :
       /\ IsNil(GetCollection(vs.cols, collectionName(u)))
       /\ vs' = [vs EXCEPT !.calls[p].pc = "missing", !.calls[p].user = u]
  /\ UNCHANGED <<env, VsUnchanged>>

\* Lines 54-61 and 91-97: the caller that found no collection runs
\* db.CreateCollection, which stores a new empty collection under the name
\* whatever is stored there by now, and SearchSimilar returns no results for
\* the empty or nil collection.
VsCreate(p) ==
  /\ vs.calls[p].pc = "missing"
  /\ \E k \in Ks, createOK \in Oks :
       LET u == vs.calls[p].user
           unseen == [vs.cols EXCEPT ![collectionName(u)] = Nil]
           f == SearchSimilar(unseen, u, k, createOK, 0)
       IN /\ vs' = [vs EXCEPT !.cols = IF createOK THEN f.cols ELSE @,
                              !.calls[p].pc = "leaving",
                              !.calls[p].created = createOK,
                              !.last = [op |-> "SearchSimilar", userID |-> u, k |-> k,
                                        count |-> f.count, queries |-> f.queries,
                                        results |-> f.results, err |-> f.err,
                                        nFail |-> 0]]
          /\ env' = SpendFault(env, createOK)
  /\ UNCHANGED VsUnchanged

\* Line 68: defer s.mu.Unlock().
VsUnlock(p) ==
  /\ vs.calls[p].pc = "leaving"
  /\ vs.calls[p].op = "UpsertMemo"
  /\ vs' = [vs EXCEPT !.mu.writer = FALSE, !.calls[p] = IdleCall]
  /\ UNCHANGED <<env, VsUnchanged>>

\* Line 88: defer s.mu.RUnlock().
VsRUnlock(p) ==
  /\ vs.calls[p].pc = "leaving"
  /\ vs.calls[p].op = "SearchSimilar"
  /\ vs' = [vs EXCEPT !.mu.readers = @ - 1, !.calls[p] = IdleCall]
  /\ UNCHANGED <<env, VsUnchanged>>

(***************************************************************************)
(* The initial states and the specification.                               *)
(***************************************************************************)
\* A stored history of n messages, user and assistant turns alternating, each
\* of content <<atom>>.
History(n, atom) ==
  {[id |-> i, role |-> IF i % 2 = 1 THEN "user" ELSE "assistant", content |-> <<atom>>,
    toolName |-> "", tokenCount |-> TokenCount(<<atom>>)] : i \in 1..n}

\* calls: the calls in progress on the Store; last: the latest body that ran,
\* with its arguments and what it returned.
NoVectorStore == [configured |-> FALSE, cols |-> NoCollections, mu |-> Unlocked,
                  calls |-> [p \in Procs |-> IdleCall], last |-> Nil]
VectorStore(cols) == [configured |-> TRUE, cols |-> cols, mu |-> Unlocked,
                      calls |-> [p \in Procs |-> IdleCall], last |-> Nil]
OwnerIndexed ==
  VectorStore([NoCollections EXCEPT ![collectionName(UserID(Owner))] =
                 [docs |-> <<Doc(UserID(Owner), "m1", <<"m1">>)>>]])
\* The owner's collection with four notes indexed, one of them long.
OwnerIndexedFour ==
  VectorStore([NoCollections EXCEPT ![collectionName(UserID(Owner))] =
                 [docs |-> <<Doc(UserID(Owner), "m1", <<"m1">>),
                             Doc(UserID(Owner), "m3", <<"BIG">>),
                             Doc(UserID(Owner), "m4", <<"m4">>),
                             Doc(UserID(Owner), "m5", <<"m5">>)>>]])

\* Each user's collection holding one note indexed for that user.
BothIndexed ==
  VectorStore([n \in CollectionNames |->
                 IF n = collectionName(UserID(Owner))
                 THEN [docs |-> <<Doc(UserID(Owner), "m1", <<"a">>)>>]
                 ELSE [docs |-> <<Doc(UserID("u2"), "m3", <<"b">>)>>]])

\* The stores before the first request: the session with a history of one of
\* the given sizes.
\* A history whose last message is the stored result of a tool.
HistoryWithTool(n, atom) ==
  {IF m.id = n THEN [m EXCEPT !.role = "tool", !.toolName = "search_memos"] ELSE m :
     m \in History(n, atom)}

\* The store with one session of the owner holding one of `histories`.
InitTables(histories, stores) ==
  /\ driver \in Drivers
  /\ session = [exists |-> TRUE, creator |-> Owner, title |-> <<"New Chat">>, summary |-> << >>]
  /\ \E h \in histories :
       /\ msgTable = h
       /\ nextMsgID = Cardinality(h) + 1
  /\ memos = [m \in MemoUIDs \cup SpareUIDs |->
                [exists |-> m \in MemoUIDs, creatorID |-> IF m = "m2" THEN "u2" ELSE "u1",
                 content |-> IF m \in MemoUIDs THEN <<m>> ELSE << >>,
                 createdTs |-> IF m = "m1" THEN SecondsPerDay ELSE 2 * SecondsPerDay]]
  /\ vs \in stores
  /\ titleTasks = << >>
  /\ req = [r \in Requests |-> IdleReq]
  /\ lastCall = Nil
  /\ compactions = << >>
  /\ http = NoRequest

\* The same with a history of alternating turns, of a size and an atom drawn
\* from the sets given.
InitStore(sizes, atoms, stores) ==
  InitTables({History(c[1], c[2]) : c \in {d \in sizes \X atoms : d[1] = 0 => d[2] = "h"}},
             stores)

\* The steps of handleAIChat once the request is accepted.
Handler(r) ==
  \/ List(r)
  \/ McLLM(r) \/ McUpdate(r) \/ McDelete(r) \/ McInsert(r)
  \/ PersistUser(r) \/ LLMStep(r) \/ Dispatch(r)
  \/ Finish(r) \/ Sources(r) \/ Touch(r)

\* The agent loop: one request on a session with a short history, any model
\* turns.
Init ==
  /\ apiKey \in BOOLEAN
  /\ InitStore({keepRecentMessages}, {"h"}, {NoVectorStore, OwnerIndexed})
  /\ env = [reqs |-> 1, calls |-> 0, tools |-> TRUE, plain |-> TRUE, rich |-> MaxRichTurns, faults |-> 0,
            fails |-> LLMFailures, finals |-> FinalAnswers]

Next ==
  \/ Start("r1") \/ List("r1") \/ PersistUser("r1") \/ LLMStep("r1") \/ Dispatch("r1")
  \/ Finish("r1") \/ Sources("r1") \/ Touch("r1")

Spec == Init /\ [][Next]_vars

\* The agent loop with the stores and the search engine failing at most
\* MaxFaults times.
InitDispatch ==
  /\ apiKey = TRUE
  /\ InitStore({keepRecentMessages}, {"h"}, {OwnerIndexed})
  /\ driver = "mysql"
  /\ env = [reqs |-> 1, calls |-> 0, tools |-> TRUE, plain |-> FALSE, rich |-> MaxRichTurns,
            faults |-> MaxFaults, fails |-> {"transport"}, finals |-> {<<"a1", " ", "a2">>}]

SpecDispatch == InitDispatch /\ [][Next]_vars

\* The first request of a new session without a vector store, with plain
\* turns only, storage faults and the title task; the handler's goroutine
\* runs on until it returns.
InitLive ==
  /\ apiKey = TRUE
  /\ InitStore({0}, {"h"}, {NoVectorStore})
  /\ env = [reqs |-> 1, calls |-> 0, tools |-> TRUE, plain |-> TRUE, rich |-> 0, faults |-> MaxFaults,
            fails |-> LLMFailures, finals |-> FinalAnswers]

NextLive == Next \/ AutoTitle

SpecLive == InitLive /\ [][NextLive]_vars /\ WF_vars(Handler("r1"))

\* Compaction: one request on a long history, with storage faults; the
\* model answers without tools.
HistorySizes == {keepRecentMessages, keepRecentMessages + MaxOld}

InitCompact ==
  /\ apiKey = TRUE
  /\ InitStore(HistorySizes, {"h", "BIG", "BIG1"}, {NoVectorStore})
  /\ env = [reqs |-> 1, calls |-> 0, tools |-> FALSE, plain |-> FALSE, rich |-> 0, faults |-> MaxFaults,
            fails |-> {"transport"}, finals |-> {<< >>, <<"a1", " ", "a2">>}]

NextCompact ==
  \/ Start("r1") \/ List("r1")
  \/ McLLM("r1") \/ McUpdate("r1") \/ McDelete("r1") \/ McInsert("r1")
  \/ PersistUser("r1") \/ LLMStep("r1")
  \/ Finish("r1") \/ Sources("r1") \/ Touch("r1")

SpecCompact == InitCompact /\ [][NextCompact]_vars

\* One request on a history with or without a stored tool result, under and
\* over the threshold, storage working.
InitPrompt ==
  /\ apiKey = TRUE
  /\ InitTables({History(n, a) : n \in HistorySizes, a \in {"h", "BIG"}}
                \cup {HistoryWithTool(n, a) : n \in HistorySizes, a \in {"h", "BIG"}},
                {NoVectorStore})
  /\ env = [reqs |-> 1, calls |-> 0, tools |-> FALSE, plain |-> FALSE, rich |-> 0, faults |-> 0,
            fails |-> {"transport"}, finals |-> {<<"a1", " ", "a2">>}]

SpecPrompt == InitPrompt /\ [][NextCompact]_vars

\* The same, the handler's goroutine running on until it returns.
SpecCompactLive == InitCompact /\ [][NextCompact]_vars /\ WF_vars(Handler("r1"))

\* Compaction in requests that follow one another on the session, storage
\* working.
InitRepeat ==
  /\ apiKey = TRUE
  /\ InitStore(HistorySizes, {"BIG", "BIG1"}, {NoVectorStore})
  /\ env = [reqs |-> MaxRequests, calls |-> 0, tools |-> FALSE, plain |-> FALSE, rich |-> 0, faults |-> 0,
            fails |-> {"transport"}, finals |-> {<< >>, <<"a1", " ", "a2">>}]

SpecRepeat == InitRepeat /\ [][NextCompact]_vars

\* Compaction while the session's owner deletes the session.
InitRace ==
  /\ apiKey = TRUE
  /\ InitStore(HistorySizes, {"BIG"}, {NoVectorStore})
  /\ env = [reqs |-> 1, calls |-> 0, tools |-> FALSE, plain |-> FALSE, rich |-> 0, faults |-> 0,
            fails |-> {"transport"}, finals |-> {<< >>, <<"a1", " ", "a2">>}]

NextRace == NextCompact \/ DeleteSession

SpecRace == InitRace /\ [][NextRace]_vars

\* The note tools on their own: invocations by either user on either note.
InitTools ==
  /\ apiKey = TRUE
  /\ InitStore({0}, {"h"}, {OwnerIndexed})
  /\ env = [reqs |-> 0, calls |-> MaxInvocations, tools |-> TRUE, plain |-> TRUE, rich |-> 0,
            faults |-> MaxFaults, fails |-> {}, finals |-> {}]

NextTools == Invoke

SpecTools == InitTools /\ [][NextTools]_vars

\* The reading tools on their own: the first note created by the owner at a
\* second around the ends of days 1 and 2, the second by either user, the
\* third, when there is one, by the other user and indexed for that user.
ReadTimes ==
  {SecondsPerDay - 1, SecondsPerDay, 2 * SecondsPerDay - 1, 2 * SecondsPerDay,
   2 * SecondsPerDay + 1, 3 * SecondsPerDay, 3 * SecondsPerDay + 1}

Memo(exists, creatorID, content, createdTs) ==
  [exists |-> exists, creatorID |-> creatorID, content |-> content, createdTs |-> createdTs]

InitRead ==
  /\ apiKey = TRUE
  /\ driver = "postgres"
  /\ session = [exists |-> TRUE, creator |-> Owner, title |-> <<"New Chat">>, summary |-> << >>]
  /\ msgTable = {}
  /\ nextMsgID = 1
  /\ \E t1 \in ReadTimes, u \in Users, t2 \in {SecondsPerDay, 2 * SecondsPerDay},
        third \in BOOLEAN :
       /\ memos = [m \in MemoUIDs \cup SpareUIDs |->
                     CASE m = "m1" -> Memo(TRUE, Owner, <<"a">>, t1)
                       [] m = "m2" -> Memo(TRUE, u, <<"b">>, t2)
                       [] OTHER -> Memo(third, "u2", IF third THEN <<"b">> ELSE << >>,
                                        2 * SecondsPerDay)]
       /\ vs = IF third THEN BothIndexed ELSE OwnerIndexed
  /\ titleTasks = << >>
  /\ req = [r \in Requests |-> IdleReq]
  /\ lastCall = Nil
  /\ compactions = << >>
  /\ http = NoRequest
  /\ env = [reqs |-> 0, calls |-> MaxInvocations, tools |-> TRUE, plain |-> TRUE, rich |-> 0,
            faults |-> 0, fails |-> {}, finals |-> {}]

NextRead == InvokeRead

SpecRead == InitRead /\ [][NextRead]_vars

\* The session's endpoints called by its owner, by another user and
\* unauthenticated, around one chat request.
InitOwner ==
  /\ apiKey \in BOOLEAN
  /\ InitStore({2}, {"h"}, {NoVectorStore})
  /\ driver = "postgres"
  /\ env = [reqs |-> 1, calls |-> MaxEndpointCalls, tools |-> FALSE, plain |-> FALSE, rich |-> 0,
            faults |-> MaxFaults, fails |-> {"transport"}, finals |-> {<<"a1", " ", "a2">>}]

NextOwner ==
  \/ Start("r1") \/ List("r1") \/ PersistUser("r1") \/ LLMStep("r1")
  \/ Finish("r1") \/ Sources("r1") \/ Touch("r1")
  \/ updateAIChatSession \/ listAIChatMessages \/ deleteAIChatSession

SpecOwner == InitOwner /\ [][NextOwner]_vars

\* The citation search: a request on a session without or with a vector
\* store, the store holding one note of the owner or four, the engine and
\* the storage failing at most MaxFaults times; once the search has returned,
\* the handler's goroutine runs on until it returns.
InitSources ==
  /\ apiKey = TRUE
  /\ InitStore({2}, {"h"}, {NoVectorStore, OwnerIndexed, OwnerIndexedFour})
  /\ driver = "postgres"
  /\ env = [reqs |-> 1, calls |-> 0, tools |-> TRUE, plain |-> TRUE, rich |-> 0,
            faults |-> MaxFaults, fails |-> {"transport"}, finals |-> {<< >>, <<"a1", " ", "a2">>}]

SpecSources == InitSources /\ [][Next]_vars /\ WF_vars(Touch("r1"))

\* A chat request whose client may disconnect at any point: with or without
\* compaction, the model answering with text or with the plain tool call.
InitCancel ==
  /\ apiKey = TRUE
  /\ InitStore(HistorySizes, {"BIG1"}, {NoVectorStore, OwnerIndexed})
  /\ driver = "postgres"
  /\ env = [reqs |-> 1, calls |-> 0, tools |-> TRUE, plain |-> TRUE, rich |-> 0, faults |-> 0,
            fails |-> LLMFailures, finals |-> {<<"a1", " ", "a2">>}]

NextCancel == Start("r1") \/ Handler("r1") \/ Disconnect("r1")

SpecCancel == InitCancel /\ [][NextCancel]_vars

\* The title task: a chat request on a new or a used session, renamed or
\* not, and the detached title call; the handler's goroutine runs on until
\* it returns, the title call may never come back.
InitTitle ==
  /\ apiKey = TRUE
  /\ InitStore({0, 2}, {"h"}, {NoVectorStore})
  /\ driver = "postgres"
  /\ env = [reqs |-> 1, calls |-> MaxEndpointCalls, tools |-> FALSE, plain |-> FALSE, rich |-> 0,
            faults |-> MaxFaults, fails |-> {"transport"}, finals |-> {<<"a1", " ", "a2">>}]

NextTitle ==
  \/ Start("r1") \/ List("r1") \/ PersistUser("r1") \/ LLMStep("r1")
  \/ Finish("r1") \/ Sources("r1") \/ Touch("r1")
  \/ AutoTitle \/ updateAIChatSession

SpecTitle == InitTitle /\ [][NextTitle]_vars /\ WF_vars(Handler("r1"))

\* Concurrent upserts and searches on one Store, the engine failing at most
\* MaxFaults times.
InitVector ==
  /\ apiKey = TRUE
  /\ InitStore({0}, {"h"}, {VectorStore(NoCollections), OwnerIndexed})
  /\ driver = "mysql"
  /\ env = [reqs |-> 0, calls |-> MaxVsCalls, tools |-> FALSE, plain |-> FALSE, rich |-> 0,
            faults |-> MaxFaults, fails |-> {}, finals |-> {}]
NextVector ==
  \/ \E p \in Procs : VsCall(p)
  \/ \E p \in Procs : VsLock(p)
  \/ \E p \in Procs : VsRLock(p)
  \/ \E p \in Procs : VsUpsert(p)
  \/ \E p \in Procs : VsSearch(p)
  \/ \E p \in Procs : VsUnlock(p)
  \/ \E p \in Procs : VsRUnlock(p)
SpecVector == InitVector /\ [][NextVector]_vars

\* The same, a search also taking getOrCreateCollection in its two steps,
\* with other callers running between the lookup and the creation.
NextLazy ==
  \/ NextVector
  \/ \E p \in Procs : VsLookup(p)
  \/ \E p \in Procs : VsCreate(p)
SpecLazy == InitVector /\ [][NextLazy]_vars

(***************************************************************************)
(* Properties.                                                             *)
(***************************************************************************)
IsEmit(e, type) == e.kind = "emit" /\ e.type = type
IsAgentCall(e) == e.kind = "llm" /\ e.type = "agent"
Last(q) == q[Len(q)]

\* C1: a request issues at most maxAgentRounds LLM calls in its loop, and
\* once the model has asked for tools in maxAgentRounds turns the loop is
\* over: no further LLM call and no further dispatch.
C1_RoundLimit ==
  \A r \in Requests :
    /\ Count(req[r].log, "llm", "agent") <= maxAgentRounds
    /\ req[r].round >= maxAgentRounds => req[r].pc \notin {"llm", "dispatch"}

\* A finished request whose model asked for tools in every one of its turns.
C1_SixToolTurns ==
  \E r \in Requests :
    /\ req[r].pc = "finished"
    /\ req[r].round = maxAgentRounds
    /\ Count(req[r].log, "llm", "agent") = maxAgentRounds

\* The entries of a turn's calls that are the first with their id, in order.
RECURSIVE FirstOccurrences(_, _)
FirstOccurrences(calls, seen) ==
  IF calls = << >> THEN << >>
  ELSE IF Head(calls).id \in seen THEN FirstOccurrences(Tail(calls), seen)
  ELSE <<Head(calls)>> \o FirstOccurrences(Tail(calls), seen \cup {Head(calls).id})

\* The positions in `messages` of the model's turns that ask for tools.
ToolTurnsAt(messages) ==
  {i \in 1..Len(messages) : messages[i].role = "assistant" /\ messages[i].toolCalls # << >>}

\* The end of the stretch that starts at position i of a sequence of length
\* n cut at the positions `cuts`.
StretchEnd(cuts, i, n) ==
  IF \E j \in cuts : j > i THEN (CHOOSE j \in cuts : j > i /\ \A o \in cuts : o > i => j <= o) - 1
  ELSE n

\* The tool-response entries that follow the turn at position i.
TurnResponses(messages, i) ==
  SubSeq(messages, i + 1, StretchEnd(ToolTurnsAt(messages), i, Len(messages)))

\* The trace between the n-th LLM call of the loop (from 1) and the next.
TurnLog(log, n) ==
  LET at == {i \in 1..Len(log) : IsAgentCall(log[i])}
      i == CHOOSE k \in at : Cardinality({o \in at : o <= k}) = n
  IN SubSeq(log, i + 1, StretchEnd(at, i, Len(log)))

\* The calls of the n-th turn that the dispatch loop has gone past.
Handled(q, n, calls) ==
  IF q.pc = "dispatch" /\ n = q.round + 1 THEN SubSeq(calls, 1, q.tcIdx - 1) ELSE calls

\* What the n-th turn of request q, at position i of its messages, has left
\* behind, given the calls `ran` that were executed: one tool_call event per
\* first occurrence, one execution per call of `ran`, one tool-response
\* entry per first occurrence, each in the order of the first occurrences.
TurnDispatchedOnce(q, n, i, ran(_)) ==
  LET firsts == FirstOccurrences(Handled(q, n, q.messages[i].toolCalls), {})
      log == TurnLog(q.log, n)
  IN /\ SelectSeq(log, LAMBDA e : IsEmit(e, "tool_call"))
          = [k \in 1..Len(firsts) |->
               Emit("tool_call", [name |-> firsts[k].name, input |-> firsts[k].args])]
     /\ SelectSeq(log, LAMBDA e : e.kind = "exec")
          = [k \in 1..Len(ran(firsts)) |-> Exec(ran(firsts)[k].name, ran(firsts)[k].id)]
     /\ [k \in 1..Len(TurnResponses(q.messages, i)) |->
           <<TurnResponses(q.messages, i)[k].role, TurnResponses(q.messages, i)[k].toolCallID>>]
          = [k \in 1..Len(firsts) |-> <<"tool", firsts[k].id>>]

EveryTurnDispatchedOnce(ran(_)) ==
  \A r \in Requests :
    LET q == req[r]
        turns == ToolTurnsAt(q.messages)
    IN \A i \in turns :
         TurnDispatchedOnce(q, Cardinality({o \in turns : o <= i}), i, ran)

Registered(calls) == SelectSeq(calls, LAMBDA tc : tc.name \in ToolNames)
AllOf(calls) == calls

\* C2 (as the code has it): within one model turn every distinct call id
\* gets exactly one tool_call event and exactly one tool-response entry, for
\* its first occurrence, and later entries with the id leave nothing; the
\* first occurrence is executed once when its tool name is in the registry
\* and not at all when it is not.
C2_DedupPerTurn == EveryTurnDispatchedOnce(Registered)

\* C2 (as stated): ... and exactly one tool execution happens per distinct id.
C2_OneExecutionPerID == EveryTurnDispatchedOnce(AllOf)

\* A turn of two calls with one id, both gone past.
C2_RepeatedID ==
  \E r \in Requests :
    \E i \in ToolTurnsAt(req[r].messages) :
      LET calls == req[r].messages[i].toolCalls
      IN /\ Len(calls) = 2
         /\ calls[1].id = calls[2].id
         /\ calls[1].name \in ToolNames
         /\ req[r].pc = "finished"
         /\ Len(TurnResponses(req[r].messages, i)) = 1

\* C3: a request that got past validation and whose handler has stopped
\* running has emitted exactly one done event, carrying the session uid, as
\* the last event of its stream.
C3_DoneOnceAndLast ==
  \A r \in Requests :
    req[r].pc \in {"finished", "panicked"} =>
      /\ Count(req[r].log, "emit", "done") = 1
      /\ Last(Events(req[r].log)) = Emit("done", <<SessionUID>>)

\* C4: after a failed LLM call of the loop there is exactly one error event,
\* right after the failed call, and nothing of the loop follows it: no LLM
\* call, no tool_call event, no tool execution; the final answer is empty, no
\* token event is emitted and no assistant message is stored.
C4_FailureEndsLoop ==
  \A r \in Requests :
    \A i \in 1..Len(req[r].log) :
      IsEmit(req[r].log[i], "error") =>
        /\ Count(req[r].log, "emit", "error") = 1
        /\ i > 1 /\ IsAgentCall(req[r].log[i - 1])
        /\ \A j \in (i + 1)..Len(req[r].log) :
             /\ req[r].log[j].kind \notin {"llm", "exec"}
             /\ ~IsEmit(req[r].log[j], "tool_call")
        /\ req[r].pc \notin {"llm", "dispatch"}
        /\ req[r].finalAnswer = << >>
        /\ Count(req[r].log, "emit", "token") = 0
        /\ Count(req[r].log, "persist", "assistant") = 0

\* A finished request whose LLM call failed after a turn with tool calls.
C4_FailedInLaterRound ==
  \E r \in Requests :
    /\ req[r].pc = "finished"
    /\ req[r].round >= 1
    /\ Count(req[r].log, "emit", "error") = 1
    /\ Count(req[r].log, "exec", "update_memo") >= 1

\* What holds of a request whose model asked for tools in every turn.
SoftFailure(q) ==
  /\ Count(q.log, "emit", "error") = 0
  /\ q.finalAnswer = << >>
  /\ Count(q.log, "emit", "token") = 0
  /\ Count(q.log, "persist", "assistant") = 0
  /\ q.pc = "finished" =>
       Count(q.log, "emit", "done") = 1 /\ Last(q.log) = Emit("done", <<SessionUID>>)

\* C5: when the model asks for tools in all maxAgentRounds turns, no error
\* event is emitted, the final answer is empty, no token event is emitted, no
\* assistant message is stored, and the done event follows.
C5_SoftFailure ==
  /\ [](\A r \in Requests : req[r].round = maxAgentRounds => SoftFailure(req[r]))
  /\ \A r \in Requests :
       (req[r].round = maxAgentRounds) ~> (Count(req[r].log, "emit", "done") = 1)

\* The round limit reached and the request finished with done as its only
\* event besides the tool_call events.
C5_RoundLimitThenDone ==
  \E r \in Requests :
    /\ req[r].round = maxAgentRounds
    /\ req[r].pc = "finished"
    /\ Count(req[r].log, "emit", "tool_call") = maxAgentRounds
    /\ Last(req[r].log) = Emit("done", <<SessionUID>>)

\* A tool result that reports an error.
IsErrorText(result) == result # << >> /\ Head(result) = "Error"

\* Whether the latest invocation was of a mutating tool, by a user other
\* than the creator of the existing note it names.
OnForeignNote ==
  /\ ~IsNil(lastCall)
  /\ lastCall.name \in MutatingTools
  /\ lastCall.args.json
  /\ Field(lastCall.args, "uid", "") \in DOMAIN lastCall.before
  /\ lastCall.before[Field(lastCall.args, "uid", "")].exists
  /\ lastCall.before[Field(lastCall.args, "uid", "")].creatorID # lastCall.userID

\* C6: update_memo, append_to_memo, update_memo_tags or delete_memo invoked
\* for a user on a note of another creator returns an error text with a nil
\* error, and the note's content and existence are as before the call.
C6_ForeignNoteUntouched ==
  OnForeignNote =>
    LET uid == Field(lastCall.args, "uid", "")
    IN /\ IsNil(lastCall.err)
       /\ IsErrorText(lastCall.result)
       /\ memos[uid].content = lastCall.before[uid].content
       /\ memos[uid].exists = lastCall.before[uid].exists

\* delete_memo by u1 on the note of u2, refused as unauthorized.
C6_ForeignDeleteRefused ==
  /\ OnForeignNote
  /\ lastCall.name = "delete_memo"
  /\ lastCall.userID = "u1"
  /\ lastCall.result = <<"Error", ": unauthorized to access this note.">>
  /\ memos["m2"].exists

\* Whether maybeCompact's input is under the threshold or within the window.
UnderThreshold(msgs) ==
  TotalLen(msgs) <= compactThreshold \/ Len(msgs) <= keepRecentMessages

\* C7: entered with messages of a total length of at most compactThreshold,
\* or with no more than keepRecentMessages messages, maybeCompact returns the
\* list and the session it was given, calls no LLM and writes nothing.
C7_NoOpUnderThreshold ==
  [][\A r \in Requests :
       (/\ req[r].pc = "list"
        /\ req'[r].pc \in {"mc_llm", "persist_user"}
        /\ UnderThreshold(ListAIChatMessages(msgTable)))
       => /\ req'[r].pc = "persist_user"
          /\ req'[r].dbMsgs = ListAIChatMessages(msgTable)
          /\ req'[r].sess = req[r].sess
          /\ ~req'[r].compactErr
          /\ req'[r].log = req[r].log
          /\ session' = session
          /\ msgTable' = msgTable
          /\ nextMsgID' = nextMsgID]_vars

\* maybeCompact returned at once on a history over the threshold that has
\* just keepRecentMessages messages.
C7_LongButWithinWindow ==
  \E r \in Requests :
    /\ req[r].pc = "persist_user"
    /\ req[r].log = << >>
    /\ Len(req[r].dbMsgs) = keepRecentMessages
    /\ TotalLen(req[r].dbMsgs) > compactThreshold
    /\ ListAIChatMessages(msgTable) = req[r].dbMsgs

\* The last n entries of a sequence.
LastN(q, n) == SubSeq(q, Len(q) - n + 1, Len(q))

\* C8: when maybeCompact, entered over the threshold with more than
\* keepRecentMessages messages, gets a non-empty summary and none of its
\* storage steps fails, it returns the last keepRecentMessages messages of
\* its input in their order; the messages then listed from storage are
\* those (role, content, tool name, token count, order) and the stored
\* summary is not empty.
C8_KeepsRecent ==
  [][\A r \in Requests :
       (/\ req[r].pc = "mc_insert"
        /\ req'[r].pc = "persist_user"
        /\ ~AnyFailed(req'[r].log)
        /\ req[r].summary # << >>)
       => /\ TotalLen(req[r].pre.msgs) > compactThreshold
          /\ Len(req[r].pre.msgs) > keepRecentMessages
          /\ ~req'[r].compactErr
          /\ req'[r].dbMsgs = LastN(req[r].pre.msgs, keepRecentMessages)
          /\ Bodies(ListAIChatMessages(msgTable')) = Bodies(req'[r].dbMsgs)
          /\ Len(ListAIChatMessages(msgTable')) = keepRecentMessages
          /\ session'.exists
          /\ session'.summary # << >>]_vars

\* A compaction just completed without a failure that dropped more than one
\* old message.
C8_CompactedClean ==
  \E r \in Requests :
    /\ req[r].pc = "persist_user"
    /\ req[r].log # << >>
    /\ Last(req[r].log) = McStep("insert", FALSE)
    /\ ~AnyFailed(req[r].log)
    /\ req[r].summary # << >>
    /\ Len(req[r].pre.msgs) > keepRecentMessages + 1
    /\ Len(ListAIChatMessages(msgTable)) = keepRecentMessages
    /\ session.summary = req[r].summary

\* C9: after two compactions of the session, in successive requests, that
\* produced the texts S1 and S2, the stored summary is S1, a blank line, S2.
C9_SummariesAccumulate ==
  (/\ Len(compactions) >= 2
   /\ compactions[1].clean /\ compactions[1].summary # << >>
   /\ compactions[2].clean /\ compactions[2].summary # << >>)
  => compactions[2].stored
       = compactions[1].summary \o <<BlankLine>> \o compactions[2].summary

\* Whether a step of maybeCompact failed in the request.
CompactionStepFailed(log) ==
  \E i \in 1..Len(log) : log[i].kind = "mc" /\ log[i].data = <<TRUE>>

\* C10: when a step of maybeCompact has failed (and the session was not
\* deleted meanwhile), maybeCompact has returned the failure with the list
\* and the session it was given, and the stored messages and the stored
\* summary are those from before the call.
C10_FailureLeavesStore ==
  \A r \in Requests :
    (/\ req[r].pc = "persist_user"
     /\ CompactionStepFailed(req[r].log)
     /\ session.exists)
    => /\ req[r].compactErr
       /\ req[r].dbMsgs = req[r].pre.msgs
       /\ req[r].sess = SessionOf(req[r].pre.row)
       /\ ListAIChatMessages(msgTable) = req[r].pre.msgs
       /\ session.summary = req[r].pre.row.summary

(***************************************************************************)
(* The vector store: clamping, step-down, locking and isolation.           *)
(***************************************************************************)
\* The latest body that ran was a search; the collections are as it left them
\* while a searcher that has run its body still holds the read lock.
Searched == ~IsNil(vs.last) /\ vs.last.op = "SearchSimilar"
SearchedAndHolding ==
  Searched /\ \E p \in Procs : vs.calls[p].pc = "leaving" /\ vs.calls[p].op = "SearchSimilar"
InCriticalSection(p) == vs.calls[p].pc \in {"inside", "missing", "leaving"}
DocsOf(userID) ==
  LET col == GetCollection(vs.cols, collectionName(userID))
  IN IF IsNil(col) THEN << >> ELSE col.docs

\* C11: a search asking for more results than the user's collection holds
\* returns at most as many results as there are documents, and it returns no
\* error unless the engine rejected an attempt on its own.
C11_LargeKClamped ==
  Searched /\ vs.last.k > vs.last.count =>
    /\ Len(vs.last.results) <= vs.last.count
    /\ vs.last.nFail = 0 => ~vs.last.err

C11_AskedForMore ==
  /\ Searched
  /\ vs.last.count > 0
  /\ vs.last.k > vs.last.count
  /\ vs.last.nFail = 0
  /\ Len(vs.last.results) = vs.last.count

\* C12: a search in a collection without documents, one that had to be
\* created or could not be created included, returns no result and no error
\* and never queries the engine.
C12_EmptyCollectionNoQuery ==
  Searched /\ vs.last.count = 0 =>
    /\ vs.last.results = << >>
    /\ ~vs.last.err
    /\ vs.last.queries = << >>

C12_SearchedEmpty ==
  /\ Searched
  /\ vs.last.k > 0
  /\ vs.last.count = 0
  /\ vs.last.results = << >>

\* C13: on a collection of n > 0 documents the engine is queried with
\* min(k,n), min(k,n)-1, ... and no further than the first accepted attempt,
\* whose results are returned; an error is returned only when every attempt
\* down to 1 was rejected; at most min(k,n) queries are issued.
C13_StepDownToFirstSuccess ==
  Searched /\ vs.last.count > 0 =>
    LET o == vs.last
        m == Min(o.k, o.count)
        n == Len(o.queries)
    IN /\ n <= (IF m > 0 THEN m ELSE 0)
       /\ \A i \in 1..n : o.queries[i] = m + 1 - i
       /\ m > 0 => n = Min(o.nFail + 1, m)
       /\ o.err => n = m /\ o.nFail >= m /\ o.results = << >>
       /\ ~o.err /\ n > 0 => Len(o.results) = o.queries[n]
       /\ ~o.err /\ n > 0 /\ SearchedAndHolding =>
            o.results = SubSeq(DocsOf(o.userID), 1, o.queries[n])

C13_SecondAttemptAccepted ==
  /\ SearchedAndHolding
  /\ vs.last.k = 3
  /\ vs.last.count = 2
  /\ vs.last.queries = <<2, 1>>
  /\ ~vs.last.err
  /\ Len(vs.last.results) = 1

\* C14: while an UpsertMemo is in its critical section no other call, search
\* or upsert, is in its own; searches may share theirs.
C14_WriterExcludesAll ==
  \A p \in Procs : \A q \in Procs \ {p} :
    InCriticalSection(p) /\ vs.calls[p].op = "UpsertMemo" => ~InCriticalSection(q)

C14_TwoReadersOneWaitingWriter ==
  \E p \in Procs : \E q \in Procs \ {p} : \E w \in Procs \ {p, q} :
    /\ InCriticalSection(p) /\ vs.calls[p].op = "SearchSimilar"
    /\ InCriticalSection(q) /\ vs.calls[q].op = "SearchSimilar"
    /\ vs.calls[w].pc = "waiting" /\ vs.calls[w].op = "UpsertMemo"

\* C15: distinct user ids have distinct collection names; a collection holds
\* only documents upserted for its user and a search returns only documents
\* upserted for the searching user, taken from that user's collection; the
\* body of an upsert or a search changes no collection but the calling user's.
C15_Isolation ==
  /\ [](/\ \A u \in UserIDs : \A v \in UserIDs \ {u} : collectionName(u) # collectionName(v)
        /\ \A u \in UserIDs : \A i \in 1..Len(DocsOf(u)) : DocsOf(u)[i].forUser = u
        /\ Searched =>
             \A i \in 1..Len(vs.last.results) : vs.last.results[i].forUser = vs.last.userID
        /\ SearchedAndHolding =>
             \A i \in 1..Len(vs.last.results) :
               \E j \in 1..Len(DocsOf(vs.last.userID)) :
                 DocsOf(vs.last.userID)[j] = vs.last.results[i])
  /\ [][\A p \in Procs :
          vs.calls[p].pc = "inside" /\ vs'.calls[p].pc = "leaving" =>
            \A n \in DOMAIN vs.cols \ {collectionName(vs'.last.userID)} :
              vs'.cols[n] = vs.cols[n]]_vars

C15_FoundOwnBesideForeign ==
  \E u \in UserIDs :
    /\ Searched
    /\ u # vs.last.userID
    /\ DocsOf(u) # << >>
    /\ vs.last.results # << >>

(***************************************************************************)
(* The dispatch of tool calls: events, order and outcomes.                 *)
(***************************************************************************)
\* The number of the turn at position i of the messages, from 1.
TurnNumber(messages, i) == Cardinality({o \in ToolTurnsAt(messages) : o <= i})
\* Whether the dispatch loop is still in the n-th turn of request q.
Dispatching(q, n) == q.pc = "dispatch" /\ n = q.round + 1
IsToolResponse(m) == m.role = "tool"
EngineErrorText == <<"Error", ": ", "engine error">>

\* C16: every dispatched call, whether its tool is registered or not and
\* whether its execution fails or not, leaves exactly one tool_call event
\* with the tool's name and the raw arguments, and the event precedes the
\* execution of the tool.
C16_ToolCallEventFirst ==
  \A r \in Requests :
    LET q == req[r]
    IN /\ \A i \in ToolTurnsAt(q.messages) :
            LET n == TurnNumber(q.messages, i)
                firsts == FirstOccurrences(Handled(q, n, q.messages[i].toolCalls), {})
            IN SelectSeq(TurnLog(q.log, n), LAMBDA e : IsEmit(e, "tool_call"))
                 = [k \in 1..Len(firsts) |->
                      Emit("tool_call", [name |-> firsts[k].name, input |-> firsts[k].args])]
       /\ Count(q.log, "emit", "tool_call") = Len(SelectSeq(q.messages, IsToolResponse))
       /\ \A j \in 1..Len(q.log) :
            q.log[j].kind = "exec" =>
              /\ j > 1
              /\ IsEmit(q.log[j - 1], "tool_call")
              /\ q.log[j - 1].data.name = q.log[j].type

C16_FailedSearchAnnounced ==
  \E r \in Requests :
    /\ \E j \in 2..Len(req[r].log) :
         /\ req[r].log[j] = Exec("search_memos", "c1")
         /\ req[r].log[j - 1] = Emit("tool_call", [name |-> "search_memos", input |-> Garbage])
    /\ \E i \in 1..Len(req[r].messages) :
         IsToolResponse(req[r].messages[i]) /\ req[r].messages[i].content = EngineErrorText

\* C17: the tools of a round are executed after that round's LLM call has
\* returned, one after another in the order the model listed them, and the
\* next LLM call of the loop is made only when every dispatched call of the
\* round has its tool-response entry in the message list.
C17_RoundsAlternate ==
  \A r \in Requests :
    LET q == req[r]
    IN /\ q.pc = "dispatch" => Count(q.log, "llm", "agent") = q.round + 1
       /\ \A j \in 1..Len(q.log) :
            q.log[j].kind = "exec" => \E o \in 1..(j - 1) : IsAgentCall(q.log[o])
       /\ \A i \in ToolTurnsAt(q.messages) :
            LET n == TurnNumber(q.messages, i)
                listed == q.messages[i].toolCalls
                ran == Registered(FirstOccurrences(Handled(q, n, listed), {}))
                answered == TurnResponses(q.messages, i)
            IN /\ SelectSeq(TurnLog(q.log, n), LAMBDA e : e.kind = "exec")
                    = [k \in 1..Len(ran) |-> Exec(ran[k].name, ran[k].id)]
               /\ ~Dispatching(q, n) =>
                    [k \in 1..Len(answered) |-> answered[k].toolCallID]
                      = [k \in 1..Len(FirstOccurrences(listed, {})) |->
                           FirstOccurrences(listed, {})[k].id]
               /\ Dispatching(q, n) => Count(q.log, "llm", "agent") = n

C17_TwoToolsThenNextRound ==
  \E r \in Requests :
    \E i \in ToolTurnsAt(req[r].messages) :
      /\ Len(TurnResponses(req[r].messages, i)) = 2
      /\ Count(TurnLog(req[r].log, TurnNumber(req[r].messages, i)), "exec", "append_to_memo") = 2
      /\ Count(req[r].log, "llm", "agent") > TurnNumber(req[r].messages, i)

\* C18: a step of the dispatch loop adds no error event and leaves the loop
\* where the turn's list of calls puts it, at the next call or at the next
\* round; the call's outcome, a result text, "Error: " and the message of a
\* returned error, or "Unknown tool: " and the name, becomes the content of
\* the tool-response entry it appends.
C18_DispatchNeverFatal ==
  [][\A r \in Requests :
       req[r].pc = "dispatch" /\ req'[r] # req[r] =>
         LET q == req[r]
             tc == q.toolCalls[q.tcIdx]
             outcome == IF tc.name \notin ToolNames THEN <<"Unknown tool: ", tc.name>>
                        ELSE IF ~IsNil(lastCall'.err) THEN <<"Error", ": ">> \o lastCall'.err.error
                        ELSE lastCall'.result
         IN /\ EventsOf(req'[r].log, "error") = EventsOf(q.log, "error")
            /\ req'[r].pc = IF q.tcIdx < Len(q.toolCalls) THEN "dispatch"
                            ELSE LoopHead(q.round + 1)
            /\ tc.id \notin q.seenCallIDs =>
                 req'[r].messages =
                   Append(q.messages, [role |-> "tool", content |-> outcome,
                                       toolCalls |-> << >>, toolCallID |-> tc.id])]_vars

C18_LoopWentOnAfterError ==
  \E r \in Requests :
    /\ req[r].pc = "finished"
    /\ EventsOf(req[r].log, "error") = << >>
    /\ \E i \in 1..Len(req[r].messages) :
         /\ IsToolResponse(req[r].messages[i])
         /\ req[r].messages[i].content = EngineErrorText
    /\ \E j \in 1..Len(req[r].log) :
         /\ req[r].log[j] = Exec("search_memos", "c1")
         /\ \E l \in (j + 1)..Len(req[r].log) :
              req[r].log[l].kind = "llm" /\ req[r].log[l].type = "agent"
    /\ EventsOf(req[r].log, "done") # << >>

(***************************************************************************)
(* The tools' soft failures.                                               *)
(***************************************************************************)
\* The tools whose Call decodes its input as JSON; search_memos takes the
\* input as the query and get_user_stats ignores it.
DecodingTools == ToolNames \ {"search_memos", "get_user_stats"}
ParseFailureText == <<"Error", ": failed to parse input JSON.">>
NotFoundText == <<"Error", ": note not found.">>
\* The note the latest call named, in the store the call found: nil when
\* there is none.
NamedNote ==
  LET uid == Field(lastCall.args, "uid", "")
  IN IF uid \in DOMAIN lastCall.before /\ lastCall.before[uid].exists
     THEN lastCall.before[uid] ELSE Nil

C20_ToolNameIffToolRole ==
  \A m \in msgTable : (m.toolName # "") <=> (m.role = "tool")

C20_CompactedThenAnswered ==
  /\ compactions # << >>
  /\ \E r \in Requests :
       /\ req[r].pc = "finished"
       /\ Count(req[r].log, "persist", "user") = 1
       /\ Count(req[r].log, "persist", "assistant") = 1
  /\ Cardinality(msgTable) > keepRecentMessages

(***************************************************************************)
(* The stored messages and the stored summary across a request.            *)
(***************************************************************************)
\* Whether s is what is left of t when a prefix of t is removed.
IsSuffixOf(s, t) == Len(s) <= Len(t) /\ s = SubSeq(t, Len(t) - Len(s) + 1, Len(t))
\* Whether s is t, or t with one message more at its end.
IsAppendTo(s, t) == s = t \/ (Len(s) = Len(t) + 1 /\ SubSeq(s, 1, Len(t)) = t)
InCompaction(pc) == pc \in {"mc_llm", "mc_update", "mc_delete", "mc_insert"}

\* C21: the stored messages of the session change only by the append of a
\* message at the end or, over a compaction, by the removal of a prefix:
\* what storage lists when maybeCompact has returned is what it listed
\* before without some first messages, order, role and content kept; every
\* other step of a request leaves the list alone or adds one message at its
\* end.
C21_AppendOrPrefixRemoval ==
  [][\A r \in Requests :
       LET before == Bodies(ListAIChatMessages(msgTable))
           after == Bodies(ListAIChatMessages(msgTable'))
       IN /\ (~InCompaction(req[r].pc) /\ req'[r] # req[r]) => IsAppendTo(after, before)
          /\ (InCompaction(req[r].pc) /\ req'[r].pc = "persist_user")
               => IsSuffixOf(after, Bodies(req[r].pre.msgs))]_vars

\* C22: outside maybeCompact no step of handleAIChat changes the session's
\* stored summary, so the summary stored when the request ends is the one
\* stored when maybeCompact returned.
C22_SummaryOnlyByCompaction ==
  [][\A r \in Requests :
       (~InCompaction(req[r].pc) /\ req'[r] # req[r]) => session'.summary = session.summary]_vars

\* maybeCompact has just returned from a compaction none of whose steps failed.
JustCompacted(q) ==
  /\ q.pc = "persist_user"
  /\ q.log # << >>
  /\ Last(q.log) = McStep("insert", FALSE)
  /\ ~AnyFailed(q.log)

\* C23 as stated: right after a successful compaction the contents of the
\* session's stored messages total at most compactThreshold characters,
\* whatever the sizes of the messages.
C23_TotalBoundedAfterCompaction ==
  \A r \in Requests :
    JustCompacted(req[r]) => TotalLen(ListAIChatMessages(msgTable)) <= compactThreshold

\* C23, amended: right after a successful compaction the session stores
\* keepRecentMessages messages, whose contents total what the last
\* keepRecentMessages messages of the former list totalled; the bound is on
\* the number of messages, not on their characters.
C23_CountBoundedAfterCompaction ==
  \A r \in Requests :
    JustCompacted(req[r])
    => /\ Len(ListAIChatMessages(msgTable)) = keepRecentMessages
       /\ TotalLen(ListAIChatMessages(msgTable))
            = TotalLen(LastN(req[r].pre.msgs, keepRecentMessages))

\* A successful compaction left messages that total more than the threshold.
C23_StillOverThreshold ==
  \E r \in Requests :
    /\ JustCompacted(req[r])
    /\ Len(ListAIChatMessages(msgTable)) = keepRecentMessages
    /\ TotalLen(ListAIChatMessages(msgTable)) > compactThreshold

(***************************************************************************)
(* The streamed answer.                                                    *)
(***************************************************************************)
\* The whitespace-delimited words of a text, first to last.
RECURSIVE Words(_)
Words(s) ==
  IF s = << >> THEN << >>
  ELSE IF IsSpace(Head(s)) THEN Words(Tail(s))
  ELSE <<Head(s)>> \o Words(Tail(s))

Streamed(q) == q.pc \in {"sources", "touch", "finished"}

\* C24: once the answer is streamed, the token events of the request are one
\* per whitespace-delimited word of the final answer, in the order of the
\* words, each carrying the word followed by one space; an empty answer (and
\* one of whitespace alone) gives no token event.
C24_TokenPerWord ==
  \A r \in Requests :
    Streamed(req[r])
    => LET tokens == EventsOf(req[r].log, "token")
           words == Words(req[r].finalAnswer)
       IN /\ Len(tokens) = Len(words)
          /\ \A i \in 1..Len(tokens) : tokens[i].data = <<words[i], " ">>
          /\ req[r].finalAnswer = << >> => tokens = << >>

\* An answer with whitespace before, between and after its two words was
\* streamed as two tokens.
C24_TwoWordsStreamed ==
  \E r \in Requests :
    /\ req[r].pc = "finished"
    /\ req[r].finalAnswer = <<" ", "a1", BlankLine, "a2", " ">>
    /\ EventsOf(req[r].log, "token") = <<Emit("token", <<"a1", " ">>), Emit("token", <<"a2", " ">>)>>

(***************************************************************************)
(* The session's owner.                                                    *)
(***************************************************************************)
\* The step is a request to a session endpoint by an authenticated user who
\* did not create the session.
ByNonCreator == http'.n # http.n /\ http'.caller \in Users /\ http'.caller # session.creator

\* The step changes no stored data, returns nothing and lets no request into
\* the handler past its checks (so no LLM call and no title task follow).
RefusedClean ==
  /\ session' = session
  /\ msgTable' = msgTable
  /\ nextMsgID' = nextMsgID
  /\ memos' = memos
  /\ vs' = vs
  /\ titleTasks' = titleTasks
  /\ http'.body = << >>
  /\ \A r \in Requests : req'[r] = req[r] \/ (req'[r].pc = "idle" /\ req'[r].log = << >>)

\* C25 as stated: a request of a user who is not the session's creator to
\* rename or delete the session, to list its messages or to chat in it is
\* answered 404 "session not found" and changes nothing.
C25_NonCreatorNotFound ==
  [][ByNonCreator => (http'.status = 404 /\ RefusedClean)]_vars

\* C25, amended: such a request changes nothing and is refused; the refusal
\* is 404 "session not found", except that the chat endpoint answers 503
\* when no API key is configured and 400 when the content is blank, both
\* checked before the session is loaded.
C25_NonCreatorRefused ==
  [][ByNonCreator
       => /\ RefusedClean
          /\ http'.status =
               IF http'.op = "handleAIChat" /\ ~apiKey THEN 503
               ELSE IF http'.op = "handleAIChat" /\ IsBlank(http'.arg) THEN 400
               ELSE 404]_vars

\* Another user's rename of the existing session was answered "not found".
C25_ForeignRenameRefused ==
  /\ http.op = "updateAIChatSession"
  /\ http.caller \in Users \ {session.creator}
  /\ http.arg = <<"T2">>
  /\ http.status = 404
  /\ session.exists
  /\ session.title = <<"New Chat">>

(***************************************************************************)
(* The title task.                                                         *)
(***************************************************************************)
\* The request has opened its stream and not yet returned.
Serving(q) == q.pc \in {"llm", "dispatch", "finish", "sources", "touch"}
DoneSent(q) == q.pc = "finished" /\ EventsOf(q.log, "done") # << >>

\* C26: a title task is started by the step that stores the user message,
\* exactly when the history the request loaded is empty and the session is
\* titled "New Chat"; the title call changes the stored title only to the
\* trimmed, non-blank text it got (a failed or blank call leaves it), and
\* never the summary; and a request that is being served gets to done
\* whether or not the title call ever returns.
C26_TitleDetached ==
  /\ [][\A r \in Requests :
          /\ (req[r].pc = "persist_user" /\ req'[r].pc # "persist_user" /\ ~IsNil(req[r].sess))
               => titleTasks' =
                    IF Len(req[r].dbMsgs) = 0 /\ req[r].sess.title = <<"New Chat">>
                    THEN Append(titleTasks, [uid |-> req[r].sess.uid,
                                             firstMessage |-> req[r].content,
                                             renamed |-> FALSE])
                    ELSE titleTasks
          /\ (req[r].pc # "persist_user" /\ req'[r] # req[r]) => titleTasks' = titleTasks]_vars
  /\ [][Len(titleTasks') < Len(titleTasks)
          => /\ req' = req
             /\ session'.summary = session.summary
             /\ session'.title # session.title
                  => \E t \in TitleTexts : ~IsBlank(t) /\ session'.title = TrimSpace(t)]_vars
  /\ \A r \in Requests : Serving(req[r]) ~> DoneSent(req[r])

\* done was sent while the title call of the request was still pending.
C26_DoneBeforeTitle ==
  \E r \in Requests :
    /\ DoneSent(req[r])
    /\ titleTasks = <<[uid |-> SessionUID, firstMessage |-> req[r].content, renamed |-> FALSE]>>
    /\ session.title = <<"New Chat">>

(***************************************************************************)
(* The client's disconnect.                                                *)
(***************************************************************************)
\* The positions of the trace after the cancellation of the context.
AfterCancel(log) == {j \in 1..Len(log) : \E i \in 1..(j - 1) : log[i] = CtxCancel}

\* C27: no LLM call made with the request's context succeeds once the
\* context is cancelled.  The call of the agent loop that follows the
\* cancellation is answered by an error event and is the last of the
\* request: no tool runs and no model call is made after it, the final
\* answer stays empty and no token is streamed.  A summarisation call after
\* the cancellation fails too.
C27_NoAnswerAfterCancel ==
  \A r \in Requests :
    LET log == req[r].log
    IN \A j \in AfterCancel(log) :
         /\ (log[j].kind = "mc" /\ log[j].type = "llm") => log[j].data = <<TRUE>>
         /\ IsAgentCall(log[j])
              => /\ j < Len(log)
                 /\ IsEmit(log[j + 1], "error")
                 /\ \A k \in (j + 1)..Len(log) : ~IsAgentCall(log[k]) /\ log[k].kind # "exec"
                 /\ req[r].finalAnswer = << >>
                 /\ EventsOf(log, "token") = << >>
                 /\ req[r].pc \in {"finish", "sources", "touch", "finished"}

\* The client left after a tool had run; the next call of the loop failed
\* and the request went on to its end.
C27_CancelledBetweenRounds ==
  \E r \in Requests :
    /\ req[r].pc = "finished"
    /\ \E e, i, j \in 1..Len(req[r].log) :
         /\ e < i /\ i < j
         /\ req[r].log[e].kind = "exec"
         /\ req[r].log[i] = CtxCancel
         /\ IsAgentCall(req[r].log[j])
         /\ IsEmit(req[r].log[j + 1], "error")

(***************************************************************************)
(* The citations.                                                          *)
(***************************************************************************)
Citations(log) == SelectSeq(log, LAMBDA e : e.kind = "search")

\* C28: with a vector store configured, a request that got past the agent
\* loop has made exactly one citation search, for the user's utterance and
\* 3 results, whatever the loop did; it sent at most 3 source events, none
\* when the search returned an error; without a vector store it made no
\* search and sent no source event.  No search is made before the loop has
\* ended, and the request goes on to done.
C28_OneCitationSearch ==
  /\ [][\A r \in Requests :
          LET q == req'[r]
              sources == EventsOf(q.log, "source")
          IN /\ q.pc \in {"touch", "finished"}
                  => IF vs'.configured
                     THEN /\ Len(Citations(q.log)) = 1
                          /\ \E err \in BOOLEAN :
                               /\ Citations(q.log)[1] = Citation(q.content, 3, err)
                               /\ err => sources = << >>
                          /\ Len(sources) <= 3
                     ELSE Citations(q.log) = << >> /\ sources = << >>
             /\ q.pc \notin {"touch", "finished"}
                  => Citations(q.log) = << >> /\ sources = << >>]_vars
  /\ [](\A r \in Requests : req[r].pc = "sources" => ENABLED Sources(r))
  /\ \A r \in Requests : req[r].pc = "touch" ~> DoneSent(req[r])

\* The citation search returned an error: no source event was sent, and done
\* was.
C28_SearchFailedStillDone ==
  \E r \in Requests :
    /\ DoneSent(req[r])
    /\ vs.configured
    /\ Citations(req[r].log) = <<Citation(req[r].content, 3, TRUE)>>
    /\ EventsOf(req[r].log, "source") = << >>


(***************************************************************************)
(* The reading tools.                                                      *)
(***************************************************************************)
\* The uids a listing names: an entry is "[", i, "] Note ", uid, ":\n", the
\* preview and a blank line; lens gives the length of each note's preview.
RECURSIVE NotesIn(_, _, _)
NotesIn(result, pos, lens) ==
  IF pos + 4 > Len(result) THEN {}
  ELSE {result[pos + 3]} \cup NotesIn(result, pos + 6 + lens[result[pos + 3]], lens)

PreviewLens(ms) == [m \in DOMAIN ms |-> Len(Preview(ms[m].content, 400))]
AllDocs(cols) ==
  UNION {{cols[n].docs[i] : i \in 1..Len(cols[n].docs)} : n \in {c \in DOMAIN cols : ~IsNil(cols[c])}}
DocLens(cols) ==
  [id \in {d.id : d \in AllDocs(cols)} |->
     Len(Preview((CHOOSE d \in AllDocs(cols) : d.id = id).content, 400))]

\* The notes a call of a reading tool named in its result.
Named(c, cols) ==
  IF c.name = "search_memos" THEN NotesIn(c.result, 1, DocLens(cols))
  ELSE IF c.name = "get_user_stats" THEN {}
  ELSE NotesIn(c.result, 1, PreviewLens(c.before))

\* The stores with every note, and every collection, of the users other
\* than u removed.
WithoutOthers(ms, u) ==
  [m \in DOMAIN ms |-> IF ms[m].creatorID # u THEN [ms[m] EXCEPT !.exists = FALSE] ELSE ms[m]]
WithoutOthersIndexed(store, u) ==
  [store EXCEPT !.cols = [n \in DOMAIN store.cols |->
                            IF n = collectionName(UserID(u)) THEN store.cols[n] ELSE Nil]]

OwnNotes(ms, u) == {m \in DOMAIN ms : ms[m].exists /\ ms[m].creatorID = u}

\* C29: a call of query_memos, list_memos_by_tag, get_user_stats or
\* search_memos by a tool set bound to user u names only notes created by u
\* (for the search: documents of u's collection, indexed for u), counts u's
\* notes only, and returns what the same call returns on the stores with all
\* other users' notes and collections removed: two stores that differ only in
\* other users' notes give the same result.
C29_ReadsOnlyOwnNotes ==
  [][LET c == lastCall'
         u == c.userID
         clean == ToolCall(c.name, u, c.args, WithoutOthers(memos, u),
                           WithoutOthersIndexed(vs, u), c.fault)
     IN /\ c.name \in ReadTools
        /\ c.result = clean.result
        /\ c.err = clean.err
        /\ c.name \in {"query_memos", "list_memos_by_tag"}
             => Named(c, vs.cols) \subseteq OwnNotes(memos, u)
        /\ c.name = "search_memos"
             => \A id \in Named(c, vs.cols) :
                  \E d \in AllDocs(vs.cols) :
                    /\ d.id = id /\ d.forUser = UserID(u)
                    /\ \E i \in 1..Len(vs.cols[collectionName(UserID(u))].docs) :
                         vs.cols[collectionName(UserID(u))].docs[i] = d
        /\ c.name = "get_user_stats"
             => c.result[Len(c.result)] = Cardinality(OwnNotes(memos, u))]_vars

\* The other user listed the notes tagged "b" while the owner had one as
\* well: only the other user's note is named.
C29_ListedOwnNoteOnly ==
  /\ ~IsNil(lastCall)
  /\ lastCall.name = "list_memos_by_tag"
  /\ lastCall.userID = "u2"
  /\ lastCall.args = Json([tag |-> "b"])
  /\ lastCall.before["m2"].creatorID = Owner
  /\ Contains(lastCall.before["m2"].content, "b")
  /\ NotesIn(lastCall.result, 1, PreviewLens(lastCall.before)) = {"m3"}


(***************************************************************************)
(* The date window of query_memos.                                         *)
(***************************************************************************)
\* Midnight UTC of day d, in seconds since the epoch.
Midnight(d) == d * SecondsPerDay
InWindow(t, s, e) == Midnight(s) <= t /\ t <= Midnight(e) + 86400
OnDay(t, d) == Midnight(d) <= t /\ t < Midnight(d + 1)

\* C30: query_memos with date_start = S and date_end = E, both in the layout
\* YYYY-MM-DD, names only notes of its user created at a second t with
\* midnight(S) <= t <= midnight(E) + 86400, and names every such note that
\* contains the searched text: every note of the user created at any second
\* of day E (S <= E) is named, and with S = E every named note was created
\* within the 24 hours from midnight(S), both ends included.
C30_DateWindow ==
  [][LET c == lastCall'
     IN (/\ c.name = "query_memos"
         /\ c.args.json
         /\ ParsesAsDate(Field(c.args, "date_start", NoDate))
         /\ ParsesAsDate(Field(c.args, "date_end", NoDate)))
        => LET s == Field(c.args, "date_start", NoDate).day
               e == Field(c.args, "date_end", NoDate).day
               text == Field(c.args, "text_search", "")
               named == NotesIn(c.result, 1, PreviewLens(memos))
               own == {m \in OwnNotes(memos, c.userID) : Contains(memos[m].content, text)}
           IN /\ \A m \in named : m \in own /\ InWindow(memos[m].createdTs, s, e)
              /\ \A m \in own : InWindow(memos[m].createdTs, s, e) => m \in named
              /\ s <= e => \A m \in own : OnDay(memos[m].createdTs, e) => m \in named
              /\ s = e => \A m \in named :
                            memos[m].createdTs - Midnight(s) \in 0..SecondsPerDay]_vars

\* The owner asked for day 1 alone: the note created in the last second of
\* that day was named, and so was the one created at midnight(1) + 86400.
C30_LastSecondOfDayNamed ==
  /\ ~IsNil(lastCall)
  /\ lastCall.name = "query_memos"
  /\ lastCall.userID = Owner
  /\ lastCall.args = Json([text_search |-> "", date_start |-> DateArg(1), date_end |-> DateArg(1)])
  /\ lastCall.before["m1"].createdTs = 2 * SecondsPerDay - 1
  /\ lastCall.before["m2"].creatorID = Owner
  /\ lastCall.before["m2"].createdTs = 2 * SecondsPerDay
  /\ NotesIn(lastCall.result, 1, PreviewLens(lastCall.before)) = {"m1", "m2"}


(***************************************************************************)
(* A failed compaction.                                                    *)
(***************************************************************************)
\* The request is past the compaction step, which returned an error.
AfterFailedCompaction(q) == q.compactErr /\ (Serving(q) \/ q.pc = "finished")

\* C31: when maybeCompact returns an error, handleAIChat opens the stream
\* (status 200), sends the model the message list built from the history and
\* the session it had loaded, sends an error event only right after a failed
\* call of the agent loop, never for the compaction, and goes on to done.
C31_CompactionFailureProceeds ==
  /\ [](\A r \in Requests :
          AfterFailedCompaction(req[r])
          => LET q == req[r]
                 sent == BuildMessages(SessionOf(q.pre.row), q.pre.msgs, q.content)
             IN /\ q.status = 200
                /\ q.dbMsgs = q.pre.msgs
                /\ q.sess = SessionOf(q.pre.row)
                /\ Len(q.messages) >= Len(sent)
                /\ SubSeq(q.messages, 1, Len(sent)) = sent
                /\ \A i \in 1..Len(q.log) :
                     q.log[i] \in {Emit("error", LLMErrorText(why)) : why \in LLMFailures}
                     => i > 1 /\ q.log[i - 1] = LLMCall("agent", q.round))
  /\ \A r \in Requests :
       (req[r].compactErr /\ req[r].pc = "persist_user") ~> DoneSent(req[r])

\* The deletion of the messages failed, the model answered and done was sent
\* with no error event.
C31_DeleteFailedThenDone ==
  \E r \in Requests :
    /\ DoneSent(req[r])
    /\ req[r].compactErr
    /\ \E i \in 1..Len(req[r].log) : req[r].log[i] = McStep("delete", TRUE)
    /\ req[r].finalAnswer # << >>
    /\ EventsOf(req[r].log, "error") = << >>
    /\ Len(req[r].pre.msgs) > keepRecentMessages


(***************************************************************************)
(* The lazy creation of a collection.                                      *)
(***************************************************************************)
\* C32: a collection is created only by a caller holding the exclusive lock,
\* and two concurrent searches for a user without a collection never both run
\* the creation.
C32_CreationUnderExclusiveLock ==
  /\ \A p \in Procs : vs.calls[p].created => vs.mu.writer /\ vs.calls[p].op = "UpsertMemo"
  /\ \A p \in Procs : \A q \in Procs \ {p} :
       ~(/\ vs.calls[p].created /\ vs.calls[q].created
         /\ vs.calls[p].op = "SearchSimilar" /\ vs.calls[q].op = "SearchSimilar"
         /\ vs.calls[p].user = vs.calls[q].user)

\* Both of two searches sharing the lock have created the same collection.
C32_TwoSearchesBothCreated ==
  \E p \in Procs : \E q \in Procs \ {p} :
    /\ vs.calls[p].created /\ vs.calls[q].created
    /\ vs.calls[p].op = "SearchSimilar" /\ vs.calls[q].op = "SearchSimilar"
    /\ vs.calls[p].user = vs.calls[q].user
    /\ vs.mu.readers = 2 /\ ~vs.mu.writer


(***************************************************************************)
(* Two chat requests on one session.                                       *)
(***************************************************************************)
\* A session over the threshold, no store failures, and as many requests as
\* MaxRequests on it, two of them running at a time.
InitPair ==
  /\ apiKey = TRUE
  /\ InitStore({keepRecentMessages + MaxOld}, {"BIG"}, {NoVectorStore})
  /\ env = [reqs |-> MaxRequests, calls |-> 0, tools |-> FALSE, plain |-> FALSE, rich |-> 0,
            faults |-> 0, fails |-> {}, finals |-> {<<"a1">>}]

\* No other request is inside the re-insert loop of its compaction.
Alone(r) == \A o \in Requests \ {r} : req[o].pc # "mc_insert"

\* The steps of the two requests interleave, except that a re-insert loop
\* once begun runs to its end before the other request's next step: the
\* schedules left out add only orders of the re-inserted rows.
NextPair ==
  \/ \E r \in Requests : Alone(r) /\ Start(r)
  \/ \E r \in Requests : Alone(r) /\ List(r)
  \/ \E r \in Requests : Alone(r) /\ McLLM(r)
  \/ \E r \in Requests : Alone(r) /\ McUpdate(r)
  \/ \E r \in Requests : Alone(r) /\ McDelete(r)
  \/ \E r \in Requests : Alone(r) /\ McInsert(r)
  \/ \E r \in Requests : Alone(r) /\ PersistUser(r)
  \/ \E r \in Requests : Alone(r) /\ LLMStep(r)
  \/ \E r \in Requests : Alone(r) /\ Finish(r)
  \/ \E r \in Requests : Alone(r) /\ Sources(r)
  \/ \E r \in Requests : Alone(r) /\ Touch(r)

SpecPair == InitPair /\ [][NextPair]_vars

\* The stored messages that are a user's utterance `content`.
Utterances(table, content) == {m \in table : m.role = "user" /\ m.content = content}
\* The running requests whose user message was stored.
StoredUtterance(content) ==
  {r \in Requests : /\ req[r].content = content
                    /\ \E i \in 1..Len(req[r].log) : req[r].log[i] = Persist("user", FALSE)}
\* A compaction is between its deletion and its last re-insert.
Reinserting == \E r \in Requests : req[r].pc = "mc_insert"

\* C33: a user message stored by one request is still stored after the other
\* request's compaction (which summarised older messages only): outside the
\* re-insertion of a compaction, storage holds an utterance for every running
\* request that stored one.
C33_PersistedSurvivesCompaction ==
  ~Reinserting
  => \A content \in UserContents :
       Cardinality(Utterances(msgTable, content)) >= Cardinality(StoredUtterance(content))

\* One request stored its message while the other was compacting a history
\* listed before; after the compaction the message is gone.
C33_UtteranceLost ==
  \E r \in Requests : \E o \in Requests \ {r} :
    /\ req[r].pc = "llm"
    /\ \E i \in 1..Len(req[r].log) : req[r].log[i] = Persist("user", FALSE)
    /\ req[o].pc = "persist_user" /\ ~req[o].compactErr
    /\ Len(req[o].pre.msgs) = keepRecentMessages + MaxOld
    /\ Utterances(msgTable, req[r].content) = {}


(***************************************************************************)
(* The growth of the message list in a tool round.                         *)
(***************************************************************************)
Least(S) == CHOOSE i \in S : \A o \in S : i <= o

\* C34: the message list is the round-0 list followed, for every round in
\* which the model asked for tools, by one assistant entry carrying the
\* model's calls as it sent them and then one tool-role entry per dispatched
\* call, in dispatch order, with the call's id as tool_call_id and nothing
\* else; the content of the entry is the outcome of the call it answers.
C34_RoundGrowth ==
  /\ [](\A r \in Requests :
          req[r].messages # << >> =>
            LET q == req[r]
                base == BuildMessages(q.sess, q.dbMsgs, q.content)
                turns == ToolTurnsAt(q.messages)
            IN /\ Len(q.messages) >= Len(base)
               /\ SubSeq(q.messages, 1, Len(base)) = base
               /\ Cardinality(turns) = IF q.pc = "dispatch" THEN q.round + 1 ELSE q.round
               /\ IF turns = {} THEN Len(q.messages) = Len(base)
                  ELSE Least(turns) = Len(base) + 1
               /\ \A i \in turns :
                    LET listed == q.messages[i].toolCalls
                        n == TurnNumber(q.messages, i)
                        firsts == FirstOccurrences(Handled(q, n, listed), {})
                        answered == TurnResponses(q.messages, i)
                    IN /\ listed \in RichTurns \cup {PlainTurn}
                       /\ q.messages[i].toolCallID = ""
                       /\ Len(answered) = Len(firsts)
                       /\ \A k \in 1..Len(answered) :
                            /\ answered[k].role = "tool"
                            /\ answered[k].toolCalls = << >>
                            /\ answered[k].toolCallID = firsts[k].id)
  /\ [][\A r \in Requests :
          /\ req[r].pc = "dispatch" /\ req'[r] # req[r]
          /\ req[r].toolCalls[req[r].tcIdx].id \notin req[r].seenCallIDs
          /\ req[r].toolCalls[req[r].tcIdx].name \in ToolNames
          => LET tc == req[r].toolCalls[req[r].tcIdx]
             IN /\ lastCall'.name = tc.name /\ lastCall'.args = tc.args
                /\ Last(req'[r].messages).content =
                     IF ~IsNil(lastCall'.err) THEN <<"Error", ": ">> \o lastCall'.err.error
                     ELSE lastCall'.result]_vars

\* A turn of three calls, the third repeating the id of the first, has left
\* the assistant entry with the three calls and two tool-role entries, and the
\* loop is in its next round.
C34_ThreeListedTwoAnswered ==
  \E r \in Requests :
    \E i \in ToolTurnsAt(req[r].messages) :
      /\ Len(req[r].messages[i].toolCalls) = 3
      /\ Len(TurnResponses(req[r].messages, i)) = 2
      /\ TurnResponses(req[r].messages, i)[1].toolCallID = "c1"
      /\ TurnResponses(req[r].messages, i)[2].toolCallID = "c2"
      /\ req[r].pc = "llm" /\ req[r].round = TurnNumber(req[r].messages, i)


(***************************************************************************)
(* Undecodable arguments.                                                  *)
(***************************************************************************)
\* The tools whose definition sent to the model lists properties (lines
\* 314-344): all but get_user_stats.
ParameterTools == ToolNames \ {"get_user_stats"}

\* C35: a tool that declares parameters, called with a payload that is not
\* JSON, returns an error text as its result with a nil error and leaves the
\* note store as it was, no hit of the index in its result.
C35_UndecodableRefused ==
  ~IsNil(lastCall) /\ lastCall.name \in ParameterTools /\ ~lastCall.args.json
  => /\ IsNil(lastCall.err)
     /\ IsErrorText(lastCall.result)
     /\ memos = lastCall.before

\* search_memos took the undecodable payload as its query and answered with
\* the owner's indexed note.
C35_SearchedWithRawPayload ==
  /\ ~IsNil(lastCall)
  /\ lastCall.name = "search_memos"
  /\ ~lastCall.args.json
  /\ lastCall.fault = "none"
  /\ IsNil(lastCall.err)
  /\ lastCall.result = Hits(<<[id |-> "m1", content |-> <<"m1">>]>>, 1)


(***************************************************************************)
(* The message list of round 0.                                            *)
(***************************************************************************)
SummaryHeading == "Summary of earlier conversation:"
\* The stored turns of a list: its messages of role user or assistant.
Turns(msgs) == SelectSeq(msgs, LAMBDA m : m.role \in {"user", "assistant"})
EndsWith(s, t) == Len(s) >= Len(t) /\ SubSeq(s, Len(s) - Len(t) + 1, Len(s)) = t

\* C36: the list with which round 0 calls the model is one system entry, with
\* the summary section exactly when the summary of the session the compaction
\* step returned is non-empty and then ending with that summary; then the
\* user and assistant messages the step returned, in their order, no tool
\* result among them; then the new utterance as a user entry.
C36_RoundZeroList ==
  \A r \in Requests :
    req[r].pc = "llm" /\ req[r].round = 0
    => LET q == req[r]
           sent == q.messages
           turns == Turns(q.dbMsgs)
       IN /\ Len(sent) = Len(turns) + 2
          /\ sent[1].role = "system"
          /\ (\E i \in 1..Len(sent[1].content) : sent[1].content[i] = SummaryHeading)
               <=> q.sess.summary # << >>
          /\ q.sess.summary # << >> => EndsWith(sent[1].content, <<SummaryHeading>> \o q.sess.summary)
          /\ \A i \in 2..Len(sent) : sent[i].role # "system"
          /\ \A i \in 1..Len(turns) :
               sent[i + 1].role = turns[i].role /\ sent[i + 1].content = turns[i].content
          /\ sent[Len(sent)] = Msg("user", q.content)
          /\ \A i \in 1..Len(sent) : sent[i].toolCalls = << >> /\ sent[i].toolCallID = ""
          /\ ~Compacts(apiKey, q.pre.msgs) => q.dbMsgs = q.pre.msgs /\ q.sess = SessionOf(q.pre.row)
          /\ Compacts(apiKey, q.pre.msgs) /\ ~q.compactErr
               => q.dbMsgs = RecentOf(q.pre.msgs) /\ q.sess.summary = session.summary

\* After a compaction that stored the summary S1, round 0 is about to send
\* the summary and the nine turns kept, the stored tool result left out.
C36_SummaryAndNineTurns ==
  \E r \in Requests :
    /\ req[r].pc = "llm" /\ req[r].round = 0
    /\ req[r].sess.summary = <<"S1">>
    /\ Len(req[r].dbMsgs) = keepRecentMessages
    /\ \E i \in 1..Len(req[r].dbMsgs) : req[r].dbMsgs[i].role = "tool"
    /\ Len(req[r].messages) = keepRecentMessages + 1


(***************************************************************************)
(* A rename while the title call is pending.                               *)
(***************************************************************************)
\* C37: the title call of a task started before the user renamed the session
\* leaves the stored title as it is.
C37_RenameOutlastsAutoTitle ==
  [][\A i \in 1..Len(titleTasks) :
       titleTasks' = RemoveAt(titleTasks, i) /\ titleTasks[i].renamed
       => session'.title = session.title]_vars

\* The rename endpoint answered 200 with the user's title, and the title in
\* storage is the one a title call has written since.
C37_UserTitleOverwritten ==
  /\ http.op = "updateAIChatSession" /\ http.status = 200
  /\ titleTasks = << >>
  /\ session.exists
  /\ session.title # http.body
  /\ session.title \in {TrimSpace(t) : t \in TitleTexts}


(***************************************************************************)
(* The session maybeCompact returns.                                       *)
(***************************************************************************)
\* C38: after maybeCompact has returned without error the handler holds a
\* session, whatever became of the row meanwhile, and it never stops on the
\* dereference of a nil session.
C38_CompactedSessionNotNil ==
  \A r \in Requests :
    /\ req[r].pc = "persist_user" /\ ~req[r].compactErr => ~IsNil(req[r].sess)
    /\ req[r].pc # "panicked"

\* The row went away during the compaction, whose update and delete returned
\* no error, and maybeCompact has handed the handler a nil session.
C38_NilSessionReturned ==
  \E r \in Requests :
    /\ req[r].pc = "persist_user"
    /\ ~req[r].compactErr
    /\ \E i \in 1..Len(req[r].log) : req[r].log[i] = McStep("update", FALSE)
    /\ \E i \in 1..Len(req[r].log) : req[r].log[i] = McStep("delete", FALSE)
    /\ IsNil(req[r].sess)
    /\ ~session.exists
    /\ driver = "mysql"


(***************************************************************************)
(* The inserts of a request.                                               *)
(***************************************************************************)
\* The positions of the trace with an entry of the kind and type.
At(log, kind, type) == {i \in 1..Len(log) : log[i].kind = kind /\ log[i].type = type}
\* Every position of S comes before every position of T.
Before(S, T) == \A i \in S : \A j \in T : i < j

\* C39: a request that was accepted has, when it is over, inserted the
\* user's message exactly once and before the first model call of its loop,
\* and the assistant message exactly when the final answer is non-empty, once,
\* after every token event and before done; the stored answer of the request
\* has the request's utterance stored before it.
C39_InsertsInOrder ==
  \A r \in Requests :
    req[r].pc \in {"finished", "panicked"} /\ req[r].status = 200
    => LET q == req[r]
       IN /\ Cardinality(At(q.log, "persist", "user")) = 1
          /\ Before(At(q.log, "persist", "user"), At(q.log, "llm", "agent"))
          /\ Cardinality(At(q.log, "persist", "assistant"))
               = IF q.finalAnswer # << >> THEN 1 ELSE 0
          /\ Before(At(q.log, "emit", "token"), At(q.log, "persist", "assistant"))
          /\ Before(At(q.log, "persist", "assistant"), At(q.log, "emit", "done"))
          /\ \A a \in msgTable :
               a.role = "assistant" /\ a.content = q.finalAnswer /\ q.finalAnswer # << >>
               => \E u \in Utterances(msgTable, q.content) : u.id < a.id

\* The handler stopped on the nil session before it reached the insert of
\* the user's message.
C39_StoppedBeforeInsert ==
  \E r \in Requests :
    /\ req[r].pc = "panicked"
    /\ req[r].status = 200
    /\ At(req[r].log, "persist", "user") = {}
    /\ Utterances(msgTable, req[r].content) = {}


(***************************************************************************)
(* The order of a request's events.                                        *)
(***************************************************************************)
\* The place of an event type in the stream.
Rank(type) ==
  CASE type = "tool_call" -> 1
    [] type = "error" -> 2
    [] type = "token" -> 3
    [] type = "source" -> 4
    [] type = "done" -> 5
    [] OTHER -> 0

\* C40: at every point of a request the events written so far are tool_call
\* events, then at most one error event, then token events, then source
\* events, then done, and error and token events do not occur together.
C40_EventOrder ==
  \A r \in Requests :
    LET ev == Events(req[r].log)
    IN /\ \A i \in 1..Len(ev) : Rank(ev[i].type) > 0
       /\ \A i \in 1..Len(ev) : \A j \in (i + 1)..Len(ev) : Rank(ev[i].type) <= Rank(ev[j].type)
       /\ Len(EventsOf(req[r].log, "error")) <= 1
       /\ Len(EventsOf(req[r].log, "done")) <= 1
       /\ EventsOf(req[r].log, "error") = << >> \/ EventsOf(req[r].log, "token") = << >>

\* A request that called a tool, lost the next model call and still sent a
\* citation and done.
C40_ToolErrorSourceDone ==
  \E r \in Requests :
    LET ev == Events(req[r].log)
    IN /\ Len(ev) >= 4
       /\ ev[1].type = "tool_call"
       /\ \E i \in 2..Len(ev) : ev[i].type = "error"
       /\ \E i \in 2..Len(ev) : ev[i].type = "source"
       /\ ev[Len(ev)].type = "done"

\* A request that called a tool and then streamed its answer, a citation and
\* done.
C40_ToolTokensSourceDone ==
  \E r \in Requests :
    LET ev == Events(req[r].log)
    IN /\ Len(ev) >= 4
       /\ ev[1].type = "tool_call"
       /\ \E i \in 2..Len(ev) : ev[i].type = "token"
       /\ \E i \in 2..Len(ev) : ev[i].type = "source"
       /\ ev[Len(ev)].type = "done"

====
